---- MODULE Spec2Model ----
(***************************************************************************)
(* Admission, scheduling, caching and retry pipeline of the Google Ads     *)
(* framework: core/quota.py (QuotaGovernor), core/cache.py (LRUCache,      *)
(* CacheManager), core/scheduler.py (PriorityScheduler) and                *)
(* core/google_ads_manager.py (GoogleAdsManager).                          *)
(*                                                                         *)
(* One state machine, several specifications over the same variables:     *)
(*   SpecSched   the scheduler driven directly through submit()/start()    *)
(*   SpecQuota   the QuotaGovernor driven directly on a fresh store        *)
(*   SpecCache   the CacheManager driven directly, store calls may fail    *)
(*   SpecLru     an LRUCache driven directly through get() and set()       *)
(*   Spec        the manager after application start-up, execute_gaql and  *)
(*               execute_mutate calls overlapping                          *)
(*   SpecSerial  the same manager with one execute_* call at a time and    *)
(*               reset_global_quota between calls                          *)
(*   SpecPause   the same manager with one execute_* call at a time while  *)
(*               tenants are paused and resumed                            *)
(*   SpecRead    the same manager serving cached reads one at a time, the  *)
(*               upstream returning rows, no rows or an error              *)
(*   SpecTimeout the same manager with one execute_* call at a time, the   *)
(*               wait for completion timing out, the workers running on    *)
(*   SpecWrite   the same manager serving cached reads and mutates of 0 or *)
(*               more operations, one call at a time                       *)
(*   SpecRetry   the same manager with every upstream attempt returning or *)
(*               raising a transient, unknown or permanent error           *)
(*   SpecStop    the scheduler through start(), its workers and stop(),    *)
(*               one call after the other                                  *)
(*   SpecOverlap the scheduler with start() called also while a stop()     *)
(*               call is suspended                                         *)
(*   SpecKey     build_cache_key applied to tenant ids and query texts     *)
(*   SpecDrain   the manager with overlapping calls and nothing but the    *)
(*               workers and the callers running, under weak fairness      *)
(*   SpecShutdown the manager with overlapping calls while stop() cancels  *)
(*               the workers                                               *)
(***************************************************************************)
EXTENDS Integers, Sequences, FiniteSets, TLC

\* ------------------------------------------------------------------ bounds
MaxWorkers == 1      \* largest worker count a scheduler is constructed with
MaxUntracked == 2     \* live worker tasks outside self._worker_tasks in SpecOverlap
MaxOps == 3          \* operations submitted to one scheduler in SpecSched
MaxTime == 1         \* time.time() returns a reading in 0..MaxTime
MaxCalls == 3        \* execute_gaql / execute_mutate calls made on one manager
MaxOperations == 1   \* len(request.operations) of a mutate request
LruMaxsize == 1      \* lru_maxsize the CacheManager is constructed with
MaxCacheOps == 4     \* LRU accesses (hits + misses + sets) in SpecCache
MaxDrift == 50       \* SpecQuota: charge/refund keep balances within this of 0 / daily
LruTestSize == 3     \* maxsize of the LRUCache driven directly in SpecLru
MaxLruOps == 5       \* get / set calls made on that LRUCache
MaxRetryCalls == 1   \* execute_* calls made on one manager in SpecRetry
MaxTimeoutCalls == 2
MaxDrainCalls == 2 \* execute_* calls made on one manager in SpecTimeout
MaxWriteOperations == 2  \* len(request.operations) of a mutate in SpecWrite

\* ------------------------------------------------------- program constants
READ_UNITS == 10                 \* execute_gaql: quota_units = 10
MUTATE_UNITS == 50               \* execute_mutate: 50 * len(request.operations)
BRONZE_RESERVE_PERCENT == 15     \* BRONZE_RESERVE_THRESHOLD = 0.15
MAX_ATTEMPTS == 3                \* stop_after_attempt(3)
DEFAULT_URGENCY_GAQL == 50       \* execute_gaql(urgency=50)
DEFAULT_URGENCY_MUTATE == 70     \* execute_mutate(urgency=70)

\* ------------------------------------------------------------- value types
\* Optional[T]: None is the empty sequence, a value v is <<v>>.
None == <<>>
Some(v) == <<v>>

GOLD == "gold"
SILVER == "silver"
BRONZE == "bronze"
SLATier == {GOLD, SILVER, BRONZE}

Tenants == {"t1", "t2"}

\* (tier, urgency) arguments handed to submit(): urgencies inside, at the top
\* of and outside the documented 0..99, for each tier.
SubmitArgs ==
    {<<BRONZE, 99>>, <<GOLD, 50>>, <<SILVER, 50>>, <<GOLD, 99>>, <<SILVER, 99>>,
     <<BRONZE, -5>>, <<GOLD, 120>>}

Max(a, b) == IF a >= b THEN a ELSE b
Min(a, b) == IF a <= b THEN a ELSE b

VARIABLES
    \* PriorityScheduler
    workers,          \* self.workers
    queue,            \* self.queue: the PriorityQueue's heap of Operations
    unfinished_tasks, \* self.queue._unfinished_tasks (what join() waits on)
    stats,            \* self.stats: submitted, completed, failed, by_tier
    running,          \* self._running
    worker_tasks,     \* self._worker_tasks: one record per worker task
    stop_pc,          \* where the stop() call in progress is suspended, or "idle"
    untracked,        \* worker tasks still alive that self._worker_tasks lost
    now,              \* the reading time.time() returns
    \* shared store (Redis), quota keys
    global_daily,     \* quota:global_daily
    global_remaining, \* quota:global_remaining
    client_remaining, \* quota:client:{id}:remaining
    client_tier,      \* client:{id}:tier
    client_paused,    \* client:{id}:paused holds '1'
    \* CacheManager
    hot_cache,        \* self.hot_cache.cache: the OrderedDict, oldest first
    hot_stats,        \* self.hot_cache.stats
    redis_cache,      \* shared store, cache:{key} entries with their expiry
    \* GoogleAdsManager
    calls,            \* the execute_gaql / execute_mutate coroutines
    \* direct API use
    ret,              \* what the last direct QuotaGovernor / CacheManager call returned
    \* history
    last_write,       \* per cache key: the most recent CacheManager.set not yet deleted
    peak_unfinished,  \* largest number of unfinished operations seen so far
    last_access       \* SpecLru, per key: the call that last set or hit it, 0 for never

schedVars ==
    <<workers, queue, unfinished_tasks, stats, running, worker_tasks, stop_pc,
      untracked>>
quotaVars ==
    <<global_daily, global_remaining, client_remaining, client_tier, client_paused>>
cacheVars == <<hot_cache, hot_stats, redis_cache>>
histVars == <<last_write, peak_unfinished, last_access>>
vars ==
    <<workers, queue, unfinished_tasks, stats, running, worker_tasks, stop_pc,
      untracked, now, global_daily, global_remaining, client_remaining, client_tier,
      client_paused, hot_cache, hot_stats, redis_cache, calls, ret,
      last_write, peak_unfinished, last_access>>
\* ---------------------------------------------------------------- scheduler
\* SLA_WEIGHT.get(tier.value, 1)
SLA_WEIGHT(tier) ==
    CASE tier = GOLD -> 3
      [] tier = SILVER -> 2
      [] tier = BRONZE -> 1
      [] OTHER -> 1

\* submit(): urgency_clamped = max(0, min(urgency, 99))
urgency_clamped(urgency) == Max(0, Min(urgency, 99))

PriorityIgnoringTier(tier, urgency) == 100 - urgency_clamped(urgency)

\* submit(): priority = (100 - urgency_clamped) // tier_weight
Priority(tier, urgency) ==
    (100 - urgency_clamped(urgency)) \div SLA_WEIGHT(tier)

LtPriorityOnly(a, b) == a.priority < b.priority

\* An ordering with aging: the operation that has waited longer goes first.
Operation__lt__oldest_first(a, b) ==
    IF a.timestamp # b.timestamp
    THEN a.timestamp < b.timestamp
    ELSE a.priority < b.priority

\* Operation.__lt__
Operation__lt__(a, b) ==
    IF a.priority # b.priority
    THEN a.priority < b.priority
    ELSE a.timestamp < b.timestamp

\* heapq._siftdown(heap, startpos, pos) with newitem = heap[pos]; positions
\* count from 0 as in Python, the sequence from 1.
RECURSIVE siftdown(_, _, _, _)
siftdown(heap, startpos, pos, newitem) ==
    IF pos > startpos /\ Operation__lt__(newitem, heap[((pos - 1) \div 2) + 1])
    THEN siftdown([heap EXCEPT ![pos + 1] = heap[((pos - 1) \div 2) + 1]],
                  startpos, (pos - 1) \div 2, newitem)
    ELSE [heap EXCEPT ![pos + 1] = newitem]

\* heapq._siftup(heap, pos): the smaller child bubbles up until a leaf is
\* reached, then newitem sifts down from there.
RECURSIVE siftup(_, _, _, _)
siftup(heap, startpos, pos, newitem) ==
    LET childpos == 2 * pos + 1
        rightpos == childpos + 1
        c == IF rightpos < Len(heap)
                /\ ~Operation__lt__(heap[childpos + 1], heap[rightpos + 1])
             THEN rightpos
             ELSE childpos
    IN  IF childpos < Len(heap)
        THEN siftup([heap EXCEPT ![pos + 1] = heap[c + 1]], startpos, c, newitem)
        ELSE siftdown(heap, startpos, pos, newitem)

\* asyncio.PriorityQueue._put: heapq.heappush
heappush(heap, item) == siftdown(Append(heap, item), 0, Len(heap), item)

\* asyncio.PriorityQueue._get: heapq.heappop
heappop(heap) ==
    LET lastelt == heap[Len(heap)]
        rest == SubSeq(heap, 1, Len(heap) - 1)
    IN  IF rest # <<>>
        THEN [item |-> heap[1],
              heap |-> siftup([rest EXCEPT ![1] = lastelt], 0, 0, lastelt)]
        ELSE [item |-> lastelt, heap |-> <<>>]

\* SchedulerStats.__init__
SchedulerStatsInit ==
    [submitted |-> 0, completed |-> 0, failed |-> 0,
     by_tier |-> [t \in SLATier |-> 0]]

\* A worker task: where it is in _worker's loop, and the operation it holds.
\*   "get"     awaiting queue.get()
\*   "run"     inside operation.execute(), before or between upstream attempts
\*   "charge"  inside operation.execute(), the upstream call has returned and
\*             wrapped_operation awaits quota_governor.charge
WorkerAt(pc, op) == [pc |-> pc, op |-> op]

\* PriorityScheduler.__init__
SchedInit(w) ==
    /\ workers = w
    /\ queue = <<>>
    /\ unfinished_tasks = 0
    /\ stats = SchedulerStatsInit
    /\ running = FALSE
    /\ worker_tasks = <<>>
    /\ stop_pc = "idle"
    /\ untracked = <<>>

\* PriorityScheduler.submit: the Operation built and put on the queue. id is
\* the object's identity (the submission's serial number) and urgency_in the
\* argument before clamping; neither is read by the scheduler.
NewOperation(fn, client_id, tier, urgency) ==
    [priority |-> Priority(tier, urgency),
     timestamp |-> now,
     fn |-> fn,
     client_id |-> client_id,
     tier |-> tier,
     urgency |-> urgency_clamped(urgency),
     id |-> stats.submitted + 1,
     urgency_in |-> urgency]

submit(fn, client_id, tier, urgency) ==
    /\ queue' = heappush(queue, NewOperation(fn, client_id, tier, urgency))
    /\ unfinished_tasks' = unfinished_tasks + 1
    /\ stats' = [stats EXCEPT !.submitted = @ + 1, !.by_tier[tier] = @ + 1]

\* start with the already-running test left out: a second pool is spawned
\* over the first.
start_always_spawn ==
    /\ running' = TRUE
    /\ worker_tasks' = [i \in 1..workers |-> WorkerAt("get", None)]

\* PriorityScheduler.start
start ==
    IF running
    THEN UNCHANGED <<running, worker_tasks>>
    ELSE /\ running' = TRUE
         /\ worker_tasks' = [i \in 1..workers |-> WorkerAt("get", None)]

\* _worker: operation = await queue.get(). The worker is inside queue.get():
\* it tested self._running before the call and takes the item it is woken
\* with.
worker_get(w) ==
    /\ w \in DOMAIN worker_tasks
    /\ worker_tasks[w].pc = "get"
    /\ queue # <<>>
    /\ queue' = heappop(queue).heap
    /\ worker_tasks' =
           [worker_tasks EXCEPT ![w] = WorkerAt("run", Some(heappop(queue).item))]

\* _worker with the exception of the operation let through: it ends the
\* worker task before stats.failed and queue.task_done().
worker_finish_raise_ends_worker(w, raised) ==
    IF raised
    THEN /\ worker_tasks' = [worker_tasks EXCEPT ![w] = WorkerAt("exited", None)]
         /\ UNCHANGED <<stats, unfinished_tasks>>
    ELSE /\ stats' = [stats EXCEPT !.completed = @ + 1]
         /\ unfinished_tasks' = unfinished_tasks - 1
         /\ worker_tasks' =
                [worker_tasks EXCEPT
                     ![w] = WorkerAt(IF running THEN "get" ELSE "exited", None)]

\* _worker looping on while True: the shutdown flag is not read.
worker_finish_ignoring_shutdown(w, raised) ==
    /\ stats' = IF raised
                THEN [stats EXCEPT !.failed = @ + 1]
                ELSE [stats EXCEPT !.completed = @ + 1]
    /\ unfinished_tasks' = unfinished_tasks - 1
    /\ worker_tasks' = [worker_tasks EXCEPT ![w] = WorkerAt("get", None)]

\* _worker: operation.execute() returned or raised an Exception; then
\* queue.task_done() and the test of while self._running, which sends the
\* worker back to queue.get() or ends it.
worker_finish(w, raised) ==
    /\ stats' = IF raised
                THEN [stats EXCEPT !.failed = @ + 1]
                ELSE [stats EXCEPT !.completed = @ + 1]
    /\ unfinished_tasks' = unfinished_tasks - 1
    /\ worker_tasks' =
           [worker_tasks EXCEPT
                ![w] = WorkerAt(IF running THEN "get" ELSE "exited", None)]

\* _worker: queue.get() timed out after 1 s with nothing to take, continue,
\* and while self._running is false: the worker task returns.
worker_exit(w) ==
    /\ w \in DOMAIN worker_tasks
    /\ worker_tasks[w].pc = "get"
    /\ ~running
    /\ worker_tasks' = [worker_tasks EXCEPT ![w] = WorkerAt("exited", None)]

\* The worker tasks inside operation.execute().
Executing ==
    {w \in DOMAIN worker_tasks : worker_tasks[w].pc \in {"run", "charge"}}

\* PriorityScheduler.stop, first part: nothing on a scheduler that is not
\* running, else the shutdown flag is set and stop awaits queue.join().
stop_signal ==
    IF running
    THEN running' = FALSE
    ELSE UNCHANGED running

\* stop() is between its two parts: the flag is down, the tasks are kept.
Stopping == ~running /\ worker_tasks # <<>>

\* PriorityScheduler.stop, second part: queue.join() returned or its timeout
\* is over; task.cancel() for every worker task, gather, _worker_tasks = [].
\* CancelledError is no Exception: a worker inside operation.execute()
\* leaves it through finally: queue.task_done() and except CancelledError:
\* break, counting neither completed nor failed.
stop_cancel ==
    /\ Stopping
    /\ unfinished_tasks' = unfinished_tasks - Cardinality(Executing)
    /\ worker_tasks' = <<>>


\* A worker task that has neither returned nor been cancelled: not done().
Alive(t) == t.pc \notin {"exited", "cancelled"}

\* The tasks of self._worker_tasks that are alive.
LiveTracked == {w \in DOMAIN worker_tasks : Alive(worker_tasks[w])}

\* start() assigns a new list to self._worker_tasks: the tasks of the list
\* it replaces that are alive go on running, referenced by nothing.
start_over ==
    /\ start
    /\ untracked' = IF running
                    THEN untracked
                    ELSE untracked \o SelectSeq(worker_tasks, Alive)

\* PriorityScheduler.stop up to its first await: the position of the call.
stop_enter ==
    /\ stop_pc = "idle"
    /\ stop_signal
    /\ stop_pc' = IF running THEN "join" ELSE "idle"

\* PriorityScheduler.stop resumed from wait_for(queue.join()), the queue
\* drained or the timeout over: task.cancel() for every task self._worker_tasks
\* holds now, then stop awaits gather. A cancelled worker inside
\* operation.execute() leaves it through finally: queue.task_done().
stop_cancel_tasks ==
    /\ stop_pc = "join"
    /\ unfinished_tasks' = unfinished_tasks - Cardinality(Executing)
    /\ worker_tasks' =
           [w \in DOMAIN worker_tasks |->
                IF Alive(worker_tasks[w])
                THEN WorkerAt("cancelled", None)
                ELSE worker_tasks[w]]
    /\ stop_pc' = "gather"

\* PriorityScheduler.stop resumed from gather: self._worker_tasks = [],
\* whatever the list holds now.
stop_forget ==
    /\ stop_pc = "gather"
    /\ worker_tasks' = <<>>
    /\ untracked' = untracked \o SelectSeq(worker_tasks, Alive)
    /\ stop_pc' = "idle"

\* s without its element at index i
SeqWithout(s, i) == [j \in 1..(Len(s) - 1) |-> IF j < i THEN s[j] ELSE s[j + 1]]

\* _worker, for a task self._worker_tasks no longer holds: queue.get()
untracked_get(u) ==
    /\ u \in DOMAIN untracked
    /\ untracked[u].pc = "get"
    /\ queue # <<>>
    /\ queue' = heappop(queue).heap
    /\ untracked' =
           [untracked EXCEPT ![u] = WorkerAt("run", Some(heappop(queue).item))]

\* _worker, for such a task: the end of operation.execute(), task_done() and
\* the test of while self._running; a task that returns is alive no more.
untracked_finish(u, raised) ==
    /\ u \in DOMAIN untracked
    /\ untracked[u].pc = "run"
    /\ stats' = IF raised
                THEN [stats EXCEPT !.failed = @ + 1]
                ELSE [stats EXCEPT !.completed = @ + 1]
    /\ unfinished_tasks' = unfinished_tasks - 1
    /\ untracked' = IF running
                    THEN [untracked EXCEPT ![u] = WorkerAt("get", None)]
                    ELSE SeqWithout(untracked, u)

\* _worker, for such a task: queue.get() timed out and self._running is
\* false.
untracked_exit(u) ==
    /\ u \in DOMAIN untracked
    /\ untracked[u].pc = "get"
    /\ ~running
    /\ untracked' = SeqWithout(untracked, u)

\* PriorityScheduler.health_check
health_check ==
    [healthy |-> running /\ \A w \in DOMAIN worker_tasks : Alive(worker_tasks[w]),
     running |-> running,
     workers_alive |-> Cardinality(LiveTracked),
     workers_total |-> workers,
     queue_size |-> Len(queue)]

\* ------------------------------------------------------------ QuotaGovernor
\* Every operation takes ok: TRUE when the shared-store calls it makes
\* succeed, FALSE when they raise.

\* int(await self.redis.get(key) or default): an absent key reads as default
IntOr(v, default) == IF v = None THEN default ELSE v[1]

\* can_run: global_remaining < BRONZE_RESERVE_THRESHOLD * global_daily. Over
\* the integers; the float product decides the comparison the same way for
\* every daily quota up to 100000.
BelowBronzeReserve(remaining, daily) ==
    remaining * 100 < BRONZE_RESERVE_PERCENT * daily

can_run_fail_open(client_id, units, tier, ok) == TRUE

can_run_without_reserve(client_id, units, tier, ok) ==
    IF ~ok
    THEN TRUE
    ELSE ~(\/ IntOr(global_remaining, 0) < units
           \/ IntOr(client_remaining[client_id], 0) < units)

can_run_global_only(client_id, units, tier, ok) ==
    IF ~ok
    THEN TRUE
    ELSE IF IntOr(global_remaining, 0) < units
         THEN FALSE
         ELSE ~(/\ tier = BRONZE
                /\ BelowBronzeReserve(IntOr(global_remaining, 0),
                                      IntOr(global_daily, 1)))

can_run_fail_closed(client_id, units, tier, ok) ==
    /\ ok
    /\ IntOr(global_remaining, 0) >= units
    /\ IntOr(client_remaining[client_id], 0) >= units
    /\ ~(/\ tier = BRONZE
          /\ BelowBronzeReserve(IntOr(global_remaining, 0), IntOr(global_daily, 1)))

\* QuotaGovernor.can_run
can_run(client_id, units, tier, ok) ==
    IF ~ok
    THEN TRUE
    ELSE IF \/ IntOr(global_remaining, 0) < units
            \/ IntOr(client_remaining[client_id], 0) < units
         THEN FALSE
         ELSE IF /\ tier = BRONZE
                 /\ BelowBronzeReserve(IntOr(global_remaining, 0),
                                       IntOr(global_daily, 1))
              THEN FALSE
              ELSE TRUE

charge_client_only(client_id, units, ok) ==
    /\ global_remaining' = global_remaining
    /\ client_remaining' =
           IF ok
           THEN [client_remaining EXCEPT ![client_id] = Some(IntOr(@, 0) - units)]
           ELSE client_remaining

\* QuotaGovernor.charge: one MULTI/EXEC pipeline of two DECRBY
charge(client_id, units, ok) ==
    IF ok
    THEN /\ global_remaining' = Some(IntOr(global_remaining, 0) - units)
         /\ client_remaining' =
                [client_remaining EXCEPT ![client_id] = Some(IntOr(@, 0) - units)]
    ELSE UNCHANGED <<global_remaining, client_remaining>>

refund_global_only(client_id, units, ok) ==
    /\ global_remaining' = IF ok THEN Some(IntOr(global_remaining, 0) + units)
                           ELSE global_remaining
    /\ client_remaining' = client_remaining

\* QuotaGovernor.refund: one MULTI/EXEC pipeline of two INCRBY
refund(client_id, units, ok) ==
    IF ok
    THEN /\ global_remaining' = Some(IntOr(global_remaining, 0) + units)
         /\ client_remaining' =
                [client_remaining EXCEPT ![client_id] = Some(IntOr(@, 0) + units)]
    ELSE UNCHANGED <<global_remaining, client_remaining>>

\* QuotaGovernor.get_client_tier
get_client_tier(client_id, ok) ==
    IF ok /\ client_tier[client_id] # None
    THEN client_tier[client_id][1]
    ELSE BRONZE

\* QuotaGovernor.set_client_tier
set_client_tier(client_id, tier, ok) ==
    client_tier' = IF ok THEN [client_tier EXCEPT ![client_id] = Some(tier)]
                   ELSE client_tier

\* QuotaGovernor.is_client_paused
is_client_paused(client_id, ok) == ok /\ client_paused[client_id]

\* QuotaGovernor.pause_client
pause_client(client_id, ok) ==
    client_paused' = IF ok THEN [client_paused EXCEPT ![client_id] = TRUE]
                     ELSE client_paused

\* QuotaGovernor.resume_client
resume_client(client_id, ok) ==
    client_paused' = IF ok THEN [client_paused EXCEPT ![client_id] = FALSE]
                     ELSE client_paused

reset_daily_only(daily_quota, ok) ==
    /\ global_daily' = IF ok THEN Some(daily_quota) ELSE global_daily
    /\ global_remaining' = global_remaining

\* QuotaGovernor.reset_global_quota: one MULTI/EXEC pipeline of two SET
reset_global_quota(daily_quota, ok) ==
    IF ok
    THEN /\ global_daily' = Some(daily_quota)
         /\ global_remaining' = Some(daily_quota)
    ELSE UNCHANGED <<global_daily, global_remaining>>

\* QuotaGovernor.set_client_quota
set_client_quota(client_id, quota, ok) ==
    client_remaining' =
        IF ok THEN [client_remaining EXCEPT ![client_id] = Some(quota)]
        ELSE client_remaining

\* ------------------------------------------------------------------- errors
\* A typed error: its class, its ErrorCategory and its retryable flag.
AdsAPIError(cls, category, retryable) ==
    [cls |-> cls, category |-> category, retryable |-> retryable]

AuthenticationError == AdsAPIError("AuthenticationError", "AUTHENTICATION", FALSE)
AuthorizationError == AdsAPIError("AuthorizationError", "AUTHORIZATION", FALSE)
QuotaExceededError == AdsAPIError("QuotaExceededError", "QUOTA", TRUE)
RateLimitError == AdsAPIError("RateLimitError", "RATE_LIMIT", TRUE)
ValidationError == AdsAPIError("ValidationError", "VALIDATION", FALSE)
NotFoundError == AdsAPIError("NotFoundError", "NOT_FOUND", FALSE)
ConflictError == AdsAPIError("ConflictError", "CONFLICT", FALSE)
TimeoutError == AdsAPIError("TimeoutError", "TIMEOUT", TRUE)
InternalError == AdsAPIError("InternalError", "INTERNAL", FALSE)
ExternalAPIError(retryable) ==
    AdsAPIError("ExternalAPIError", "EXTERNAL_API", retryable)

\* asyncio.TimeoutError, raised by asyncio.wait_for: not an AdsAPIError
AsyncioTimeoutError ==
    [cls |-> "asyncio.TimeoutError", category |-> "NONE", retryable |-> FALSE]

GOOGLE_ADS_ERROR_MAP_quota_as_rate_limit(error_code) ==
    CASE error_code = "AUTHENTICATION_ERROR" -> AuthenticationError
      [] error_code = "AUTHORIZATION_ERROR" -> AuthorizationError
      [] error_code = "QUOTA_ERROR" -> QuotaExceededError
      [] error_code = "RATE_LIMIT_ERROR" -> RateLimitError
      [] error_code = "RESOURCE_EXHAUSTED" -> RateLimitError
      [] error_code = "INVALID_ARGUMENT" -> ValidationError
      [] error_code = "NOT_FOUND" -> NotFoundError
      [] error_code = "ALREADY_EXISTS" -> ConflictError
      [] error_code = "DEADLINE_EXCEEDED" -> TimeoutError
      [] error_code = "INTERNAL_ERROR" -> InternalError
      [] OTHER -> ExternalAPIError(FALSE)

\* GOOGLE_ADS_ERROR_MAP.get(error_code, ExternalAPIError)
GOOGLE_ADS_ERROR_MAP(error_code) ==
    CASE error_code = "AUTHENTICATION_ERROR" -> AuthenticationError
      [] error_code = "AUTHORIZATION_ERROR" -> AuthorizationError
      [] error_code = "QUOTA_ERROR" -> QuotaExceededError
      [] error_code = "RATE_LIMIT_ERROR" -> RateLimitError
      [] error_code = "RESOURCE_EXHAUSTED" -> QuotaExceededError
      [] error_code = "INVALID_ARGUMENT" -> ValidationError
      [] error_code = "NOT_FOUND" -> NotFoundError
      [] error_code = "ALREADY_EXISTS" -> ConflictError
      [] error_code = "DEADLINE_EXCEEDED" -> TimeoutError
      [] error_code = "INTERNAL_ERROR" -> InternalError
      [] error_code = "UNAVAILABLE" -> ExternalAPIError(FALSE)
      [] OTHER -> ExternalAPIError(FALSE)

\* map_google_ads_exception
map_google_ads_exception(error_code) ==
    LET error_class == GOOGLE_ADS_ERROR_MAP(error_code)
        retryable == error_code \in {"QUOTA_ERROR", "RATE_LIMIT_ERROR",
                                     "RESOURCE_EXHAUSTED", "DEADLINE_EXCEEDED",
                                     "UNAVAILABLE"}
    IN  IF error_class.cls = "ExternalAPIError"
        THEN ExternalAPIError(retryable)
        ELSE error_class

\* retry_if_exception_type((RateLimitError, ExternalAPIError))
retry_if_exception_type(e) == e.cls \in {"RateLimitError", "ExternalAPIError"}

\* -------------------------------------------------------------------- cache
\* A cached value: its Python type and its items.
Value(type, items) == [type |-> type, items |-> items]

\* json.dumps(value): a list and a tuple both become a JSON array
json_dumps(value) ==
    [json |-> IF value.type = "dict" THEN "object" ELSE "array",
     items |-> value.items]

\* json.loads(payload): a JSON array becomes a list
json_loads(payload) ==
    Value(IF payload.json = "object" THEN "dict" ELSE "list", payload.items)

\* TTL_BY_SERVICE.get(service_type, 300), seconds
TTL_BY_SERVICE(service_type) ==
    CASE service_type = "reporting" -> 300
      [] service_type = "campaign" -> 1800
      [] service_type = "keyword" -> 900
      [] service_type = "budget" -> 3600
      [] service_type = "customer" -> 86400
      [] OTHER -> 300

\* Text is a sequence of tokens, each token a piece of a Python string, so
\* that texts are joined as strings are: "a:b" is <<"a", ":", "b">>.
\* Flatten(ts) is "".join(ts) and Join(ts, sep) is sep.join(ts).
RECURSIVE Flatten(_)
Flatten(ts) == IF ts = <<>> THEN <<>> ELSE Head(ts) \o Flatten(Tail(ts))

RECURSIVE Join(_, _)
Join(ts, sep) ==
    IF ts = <<>> THEN <<>>
    ELSE IF Len(ts) = 1 THEN ts[1]
    ELSE ts[1] \o sep \o Join(Tail(ts), sep)

\* The parameter names of the model in Python's string order.
ParamNames == <<"page_size", "query">>

\* CacheManager.build_cache_key without sorted(): the items as given.
\* params is the keyword arguments in the order they were given, a sequence
\* of <<name, value>> with distinct names.
build_cache_key_unsorted(client_id, operation, params) ==
    LET items == params
        param_str == Join([i \in DOMAIN items |->
                               <<items[i][1], "=">> \o items[i][2]], <<":">>)
    IN  IF param_str # <<>>
        THEN <<"client", ":">> \o client_id \o <<":">> \o operation
                 \o <<":">> \o param_str
        ELSE <<"client", ":">> \o client_id \o <<":">> \o operation

\* sorted(params.items()): names are distinct, so the items come in the
\* order of their names.
sorted(params) ==
    LET named(n) == SelectSeq(params, LAMBDA kv : kv[1] = n)
    IN  Flatten([i \in DOMAIN ParamNames |-> named(ParamNames[i])])

\* CacheManager.build_cache_key
build_cache_key(client_id, operation, params) ==
    LET items == sorted(params)
        param_str == Join([i \in DOMAIN items |->
                               <<items[i][1], "=">> \o items[i][2]], <<":">>)
    IN  IF param_str # <<>>
        THEN <<"client", ":">> \o client_id \o <<":">> \o operation
                 \o <<":">> \o param_str
        ELSE <<"client", ":">> \o client_id \o <<":">> \o operation

\* The one GAQL request text and page size the model's reads use.
Query == <<"q">>
PageSize == <<"1000">>
\* execute_gaql: build_cache_key(client_id=..., operation="gaql", query=...,
\* page_size=...)
GaqlKey(client_id) ==
    build_cache_key(<<client_id>>, <<"gaql">>,
                    <<<<"query", Query>>, <<"page_size", PageSize>>>>)
CacheKeys == {GaqlKey(t) : t \in Tenants}

\* The keys handed to an LRUCache used on its own.
LruKeys == {"key1", "key2", "key3", "key4", "key5"}

LruIndexFirst(cache, key) == IF cache = <<>> THEN 0 ELSE 1

\* Position of key in the OrderedDict, 0 when it is absent.
LruIndex(cache, key) ==
    IF \E i \in DOMAIN cache : cache[i].key = key
    THEN CHOOSE i \in DOMAIN cache : cache[i].key = key
    ELSE 0

Remove(seq, i) == SubSeq(seq, 1, i - 1) \o SubSeq(seq, i + 1, Len(seq))

\* CacheStats()
CacheStatsInit == [hits |-> 0, misses |-> 0, sets |-> 0, evictions |-> 0]

LRUCache_get_no_touch(cache, st, key) ==
    LET i == LruIndex(cache, key)
    IN  IF i # 0
        THEN [value |-> Some(cache[i].value),
              cache |-> cache,
              stats |-> [st EXCEPT !.hits = @ + 1]]
        ELSE [value |-> None,
              cache |-> cache,
              stats |-> [st EXCEPT !.misses = @ + 1]]

\* LRUCache.get: the value found (no stored value is None), the reordered
\* OrderedDict and the statistics.
LRUCache_get(cache, st, key) ==
    LET i == LruIndex(cache, key)
    IN  IF i # 0
        THEN [value |-> Some(cache[i].value),
              cache |-> Append(Remove(cache, i), cache[i]),
              stats |-> [st EXCEPT !.hits = @ + 1]]
        ELSE [value |-> None,
              cache |-> cache,
              stats |-> [st EXCEPT !.misses = @ + 1]]

\* LRUCache.set: the OrderedDict and statistics after it, and the key that
\* popitem(last=False) evicted, if any.
LRUCache_set(cache, st, key, value, maxsize) ==
    LET i == LruIndex(cache, key)
        entry == [key |-> key, value |-> value]
        put == IF i # 0 THEN Append(Remove(cache, i), entry)
               ELSE Append(cache, entry)
        over == Len(put) > maxsize
    IN  [cache |-> IF over THEN Tail(put) ELSE put,
         stats |-> [st EXCEPT !.sets = @ + 1,
                              !.evictions = IF over THEN @ + 1 ELSE @],
         evicted |-> IF over THEN Some(Head(put).key) ELSE None]

\* LRUCache.delete
LRUCache_delete(cache, key) ==
    IF LruIndex(cache, key) # 0 THEN Remove(cache, LruIndex(cache, key)) ELSE cache

\* redis.setex(key, ttl, payload) keeps the entry until now + ttl
RedisEntry(payload, ttl) == [payload |-> payload, expires_at |-> now + ttl]

\* redis.get(f"cache:{key}"): the payload of a live entry, else None
redis_get(cache_key) ==
    IF /\ redis_cache[cache_key] # None
       /\ now < redis_cache[cache_key][1].expires_at
    THEN Some(redis_cache[cache_key][1].payload)
    ELSE None

CacheManager_get_no_promote(cache_key, ok) ==
    LET l == LRUCache_get(hot_cache, hot_stats, cache_key)
        cached == redis_get(cache_key)
    IN  IF l.value # None
        THEN [value |-> l.value, hot_cache |-> l.cache, hot_stats |-> l.stats,
              logged |-> FALSE, evicted |-> None]
        ELSE IF ok /\ cached # None
        THEN [value |-> Some(json_loads(cached[1])), hot_cache |-> l.cache,
              hot_stats |-> l.stats, logged |-> FALSE, evicted |-> None]
        ELSE [value |-> None, hot_cache |-> l.cache, hot_stats |-> l.stats,
              logged |-> ~ok, evicted |-> None]

\* CacheManager.get: what it returns, the LRU after it, whether it logged a
\* shared-store error, and the key its promotion evicted from the LRU.
CacheManager_get(cache_key, ok) ==
    LET l == LRUCache_get(hot_cache, hot_stats, cache_key)
        cached == redis_get(cache_key)
        data == json_loads(cached[1])
        promoted == LRUCache_set(l.cache, l.stats, cache_key, data, LruMaxsize)
    IN  IF l.value # None
        THEN [value |-> l.value, hot_cache |-> l.cache, hot_stats |-> l.stats,
              logged |-> FALSE, evicted |-> None]
        ELSE IF ~ok
        THEN [value |-> None, hot_cache |-> l.cache, hot_stats |-> l.stats,
              logged |-> TRUE, evicted |-> None]
        ELSE IF cached # None
        THEN [value |-> Some(data), hot_cache |-> promoted.cache,
              hot_stats |-> promoted.stats, logged |-> FALSE,
              evicted |-> promoted.evicted]
        ELSE [value |-> None, hot_cache |-> l.cache, hot_stats |-> l.stats,
              logged |-> FALSE, evicted |-> None]

\* CacheManager.set: cache_ttl = ttl if ttl is not None else TTL_BY_SERVICE...
cache_ttl(service_type, ttl) ==
    IF ttl # None THEN ttl[1] ELSE TTL_BY_SERVICE(service_type)

CacheManager_set_store_first(cache_key, value, service_type, ttl, ok) ==
    LET s == LRUCache_set(hot_cache, hot_stats, cache_key, value, LruMaxsize)
    IN  /\ hot_cache' = IF ok THEN s.cache ELSE hot_cache
        /\ hot_stats' = IF ok THEN s.stats ELSE hot_stats
        /\ redis_cache' =
               IF ok
               THEN [redis_cache EXCEPT ![cache_key] =
                        Some(RedisEntry(json_dumps(value),
                                        cache_ttl(service_type, ttl)))]
               ELSE redis_cache

\* CacheManager.set
CacheManager_set(cache_key, value, service_type, ttl, ok) ==
    LET s == LRUCache_set(hot_cache, hot_stats, cache_key, value, LruMaxsize)
    IN  /\ hot_cache' = s.cache
        /\ hot_stats' = s.stats
        /\ redis_cache' =
               IF ok
               THEN [redis_cache EXCEPT ![cache_key] =
                        Some(RedisEntry(json_dumps(value),
                                        cache_ttl(service_type, ttl)))]
               ELSE redis_cache

\* CacheManager.delete
CacheManager_delete(cache_key, ok) ==
    /\ hot_cache' = LRUCache_delete(hot_cache, cache_key)
    /\ hot_stats' = hot_stats
    /\ redis_cache' = IF ok THEN [redis_cache EXCEPT ![cache_key] = None]
                      ELSE redis_cache

\* --------------------------------------------------------- GoogleAdsManager
\* client.search / client.mutate: what a successful upstream call returns.
\* A search returns its rows ("OK") or, when no row matches, the empty list
\* ("EMPTY").
SearchRows == Value("list", <<"campaign">>)
NoRows == Value("list", <<>>)
MutateResponse == Value("dict", <<"results">>)
UpstreamReturns == {"OK", "EMPTY"}
UpstreamResult(kind, code) ==
    IF kind = "gaql"
    THEN IF code = "EMPTY" THEN NoRows ELSE SearchRows
    ELSE MutateResponse

\* What an execute_* call ended with: a returned value or a raised error.
Returned(value) == [how |-> "return", value |-> value, error |-> None]
Raised(e) == [how |-> "raise", value |-> None, error |-> Some(e)]

\* An execute_gaql / execute_mutate coroutine: its arguments, its position
\*   "new"    not called yet
\*   "gate"   execute_gaql after a cache miss, before get_client_tier
\*   "wait"   in _execute_operation, awaiting wait_for_completion
\*   "store"  execute_gaql before cache_manager.set
\*   "done"   returned or raised
\* its locals (tier, quota_units, result_container, error_container), the
\* number of upstream calls made for it and what each of them did (codes),
\* and what the call ended with. in_pause
\* records that the call began while its tenant was paused and the tenant
\* has not been resumed since. released is the future the call waits on in
\* queue.join(): set when the unfinished count reached 0 while it waited.
NewCall ==
    [pc |-> "new", kind |-> "none", client_id |-> "none", urgency |-> 0,
     cache_enabled |-> FALSE, nops |-> 0, tier |-> "none", quota_units |-> 0,
     result_container |-> None, error_container |-> None, attempts |-> 0,
     codes |-> <<>>, outcome |-> None, in_pause |-> FALSE, released |-> FALSE]

Done(call, outcome) == [call EXCEPT !.pc = "done", !.outcome = Some(outcome)]

\* The coroutine object of a call just made.
GAQLRequest(client_id, urgency, cache_enabled) ==
    [NewCall EXCEPT !.kind = "gaql", !.client_id = client_id,
                    !.urgency = urgency, !.cache_enabled = cache_enabled,
                    !.in_pause = client_paused[client_id]]
MutateRequest(client_id, urgency, nops) ==
    [NewCall EXCEPT !.kind = "mutate", !.client_id = client_id,
                    !.urgency = urgency, !.nops = nops,
                    !.in_pause = client_paused[client_id]]

\* queue.task_done() leaving no unfinished task with every waiter released,
\* whatever the count.
ReleaseAlways(cs, unfinished) ==
    [c \in DOMAIN cs |->
        IF cs[c].pc = "wait" THEN [cs[c] EXCEPT !.released = TRUE] ELSE cs[c]]

\* queue.task_done() that never sets the event: a lost wake-up.
ReleaseNone(cs, unfinished) == cs

\* asyncio.Queue.task_done: if self._unfinished_tasks == 0:
\* self._finished.set(), which resolves the future of every coroutine
\* waiting in queue.join(). cs is the calls, unfinished the count after the
\* decrement.
Release(cs, unfinished) ==
    IF unfinished = 0
    THEN [c \in DOMAIN cs |->
             IF cs[c].pc = "wait" THEN [cs[c] EXCEPT !.released = TRUE] ELSE cs[c]]
    ELSE cs

cache_lookup_lru_only(c, call, ok) ==
    LET l == LRUCache_get(hot_cache, hot_stats, GaqlKey(call.client_id))
    IN  /\ hot_cache' = l.cache
        /\ hot_stats' = l.stats
        /\ redis_cache' = redis_cache
        /\ calls' = [calls EXCEPT ![c] =
                        IF l.value # None
                        THEN Done(call, Returned(l.value))
                        ELSE [call EXCEPT !.pc = "gate"]]

\* execute_gaql: cached_result = await self.cache_manager.get(cache_key, ...)
\* and the return on a hit
cache_lookup(c, call, ok) ==
    LET r == CacheManager_get(GaqlKey(call.client_id), ok)
    IN  /\ hot_cache' = r.hot_cache
        /\ hot_stats' = r.hot_stats
        /\ redis_cache' = redis_cache
        /\ calls' = [calls EXCEPT ![c] =
                        IF r.value # None
                        THEN Done(call, Returned(r.value))
                        ELSE [call EXCEPT !.pc = "gate"]]

quota_units_per_request(call) ==
    IF call.kind = "gaql" THEN READ_UNITS ELSE MUTATE_UNITS

\* quota_units = 10 / quota_units = 50 * len(request.operations)
quota_units(call) ==
    IF call.kind = "gaql" THEN READ_UNITS ELSE MUTATE_UNITS * call.nops

admit_enqueue_then_refuse(c, call, ok) ==
    LET tier == get_client_tier(call.client_id, ok)
    IN  /\ submit([name |-> "wrapped_operation", call |-> c],
                  call.client_id, tier, call.urgency)
        /\ calls' = [calls EXCEPT ![c] =
                        IF \/ is_client_paused(call.client_id, ok)
                           \/ ~can_run(call.client_id, quota_units(call), tier, ok)
                        THEN Done(call, Raised(QuotaExceededError))
                        ELSE [call EXCEPT !.pc = "wait", !.tier = tier,
                                          !.quota_units = quota_units(call)]]

\* execute_gaql / execute_mutate from get_client_tier on: the pause check,
\* can_run, and _execute_operation up to scheduler.submit. The three reads
\* are taken together: no step of the model writes a tier, and a pause or a
\* debit falling between them reads the same as one falling before or after.
admit(c, call, ok) ==
    LET tier == get_client_tier(call.client_id, ok)
    IN  IF is_client_paused(call.client_id, ok)
        THEN /\ calls' = [calls EXCEPT ![c] = Done(call, Raised(QuotaExceededError))]
             /\ UNCHANGED <<queue, unfinished_tasks, stats>>
        ELSE IF ~can_run(call.client_id, quota_units(call), tier, ok)
        THEN /\ calls' = [calls EXCEPT ![c] = Done(call, Raised(QuotaExceededError))]
             /\ UNCHANGED <<queue, unfinished_tasks, stats>>
        ELSE /\ submit([name |-> "wrapped_operation", call |-> c],
                       call.client_id, tier, call.urgency)
             /\ calls' = [calls EXCEPT ![c] =
                             [call EXCEPT !.pc = "wait", !.tier = tier,
                                          !.quota_units = quota_units(call)]]

\* bool(result) of a returned value
Truthy(result) == result # None /\ result[1].items # <<>>

await_return_result_first(c) ==
    calls' = [calls EXCEPT ![c] =
                 IF /\ @.kind = "gaql"
                    /\ @.cache_enabled
                    /\ Truthy(@.result_container)
                 THEN [@ EXCEPT !.pc = "store"]
                 ELSE Done(@, Returned(@.result_container))]

\* _execute_operation after wait_for_completion returned, and execute_gaql's
\* "if request.cache_enabled and result"
await_return(c) ==
    calls' = [calls EXCEPT ![c] =
                 IF @.error_container # None
                 THEN Done(@, Raised(@.error_container[1]))
                 ELSE IF /\ @.kind = "gaql"
                         /\ @.cache_enabled
                         /\ Truthy(@.result_container)
                 THEN [@ EXCEPT !.pc = "store"]
                 ELSE Done(@, Returned(@.result_container))]

\* wait_for_completion(timeout=120.0): asyncio.wait_for raises on timeout
await_timeout(c) ==
    calls' = [calls EXCEPT ![c] = Done(@, Raised(AsyncioTimeoutError))]

\* execute_gaql: await self.cache_manager.set(cache_key, result, service_type)
cache_store(c, ok) ==
    /\ CacheManager_set(GaqlKey(calls[c].client_id), calls[c].result_container[1],
                        "reporting", None, ok)
    /\ calls' = [calls EXCEPT ![c] = Done(@, Returned(@.result_container))]

worker_upstream_extra_attempt(w, error_code) ==
    LET op == worker_tasks[w].op[1]
        c == op.fn.call
        n == calls[c].attempts + 1
        e == map_google_ads_exception(error_code)
        seen == Append(calls[c].codes, error_code)
    IN  IF error_code \in UpstreamReturns
        THEN /\ calls' = [calls EXCEPT ![c] =
                             [@ EXCEPT !.attempts = n, !.codes = seen,
                                       !.result_container =
                                           Some(UpstreamResult(calls[c].kind,
                                                               error_code))]]
             /\ worker_tasks' = [worker_tasks EXCEPT ![w] = WorkerAt("charge", Some(op))]
             /\ UNCHANGED <<stats, unfinished_tasks>>
        ELSE IF retry_if_exception_type(e) /\ n <= MAX_ATTEMPTS
        THEN /\ calls' = [calls EXCEPT ![c] = [@ EXCEPT !.attempts = n, !.codes = seen]]
             /\ UNCHANGED <<worker_tasks, stats, unfinished_tasks>>
        ELSE /\ calls' = Release([calls EXCEPT ![c] =
                                     [@ EXCEPT !.attempts = n, !.codes = seen,
                                               !.error_container = Some(e)]],
                                unfinished_tasks - 1)
             /\ worker_finish(w, FALSE)

\* wrapped_operation inside a worker: one attempt of the retry-wrapped
\* upstream call, which returns (error_code in UpstreamReturns) or raises
\* error_code.
worker_upstream(w, error_code) ==
    LET op == worker_tasks[w].op[1]
        c == op.fn.call
        n == calls[c].attempts + 1
        e == map_google_ads_exception(error_code)
        seen == Append(calls[c].codes, error_code)
    IN  IF error_code \in UpstreamReturns
        THEN /\ calls' = [calls EXCEPT ![c] =
                             [@ EXCEPT !.attempts = n, !.codes = seen,
                                       !.result_container =
                                           Some(UpstreamResult(calls[c].kind,
                                                               error_code))]]
             /\ worker_tasks' = [worker_tasks EXCEPT ![w] = WorkerAt("charge", Some(op))]
             /\ UNCHANGED <<stats, unfinished_tasks>>
        ELSE IF retry_if_exception_type(e) /\ n < MAX_ATTEMPTS
        THEN /\ calls' = [calls EXCEPT ![c] = [@ EXCEPT !.attempts = n, !.codes = seen]]
             /\ UNCHANGED <<worker_tasks, stats, unfinished_tasks>>
        ELSE /\ calls' = Release([calls EXCEPT ![c] =
                                     [@ EXCEPT !.attempts = n, !.codes = seen,
                                               !.error_container = Some(e)]],
                                unfinished_tasks - 1)
             /\ worker_finish(w, FALSE)

worker_charge_per_attempt(w, ok) ==
    LET c == worker_tasks[w].op[1].fn.call
    IN  /\ charge(calls[c].client_id, calls[c].quota_units * calls[c].attempts, ok)
        /\ worker_finish(w, FALSE)
        /\ calls' = Release(calls, unfinished_tasks - 1)

worker_charge_unless_caller_gone(w, ok) ==
    LET c == worker_tasks[w].op[1].fn.call
    IN  /\ IF calls[c].pc = "done"
           THEN UNCHANGED <<global_remaining, client_remaining>>
           ELSE charge(calls[c].client_id, calls[c].quota_units, ok)
        /\ worker_finish(w, FALSE)
        /\ calls' = Release(calls, unfinished_tasks - 1)

\* wrapped_operation inside a worker: await self.quota_governor.charge(...),
\* after which execute() returns to the worker, which calls task_done()
worker_charge(w, ok) ==
    LET c == worker_tasks[w].op[1].fn.call
    IN  /\ charge(calls[c].client_id, calls[c].quota_units, ok)
        /\ worker_finish(w, FALSE)
        /\ calls' = Release(calls, unfinished_tasks - 1)

\* ------------------------------------------------- SpecSched: the scheduler
\* A coroutine handed to submit() directly; whether it returns or raises is
\* decided when a worker runs it.
TaskFn == [name |-> "task", call |-> 0]

\* The shared store with no key set, an empty CacheManager, no call made.
FreshStore ==
    /\ global_daily = None
    /\ global_remaining = None
    /\ client_remaining = [t \in Tenants |-> None]
    /\ client_tier = [t \in Tenants |-> None]
    /\ client_paused = [t \in Tenants |-> FALSE]
EmptyCache ==
    /\ hot_cache = <<>>
    /\ hot_stats = CacheStatsInit
    /\ redis_cache = [k \in CacheKeys |-> None]
NoCalls ==
    /\ calls = [c \in 1..MaxCalls |-> NewCall]
    /\ ret = [op |-> "none"]
    /\ last_write = [k \in CacheKeys |-> None]
    /\ peak_unfinished = 0
    /\ last_access = [k \in LruKeys |-> 0]

Tick ==
    /\ now < MaxTime
    /\ now' = now + 1
    /\ UNCHANGED <<schedVars, quotaVars, cacheVars, calls, ret, histVars>>

\* time.time() is read by submit() alone: the clock moves between two
\* submissions.
SchedTick ==
    /\ 0 < stats.submitted
    /\ stats.submitted < MaxOps
    /\ Tick

SchedStart ==
    /\ ~running
    /\ start
    /\ UNCHANGED <<workers, stop_pc, untracked, queue, unfinished_tasks, stats, now>>
    /\ UNCHANGED <<quotaVars, cacheVars, calls, ret, histVars>>

SchedSubmit ==
    /\ stats.submitted < MaxOps
    /\ \E a \in SubmitArgs : submit(TaskFn, "t1", a[1], a[2])
    /\ UNCHANGED <<workers, stop_pc, untracked, running, worker_tasks, now>>
    /\ UNCHANGED <<quotaVars, cacheVars, calls, ret, histVars>>

SchedWorkerGet ==
    \E w \in 1..MaxWorkers :
        /\ worker_get(w)
        /\ UNCHANGED <<workers, stop_pc, untracked, unfinished_tasks, stats, running, now>>
        /\ UNCHANGED <<quotaVars, cacheVars, calls, ret, histVars>>

SchedWorkerRun ==
    \E w \in DOMAIN worker_tasks :
        /\ worker_tasks[w].pc = "run"
        /\ worker_tasks[w].op[1].fn.name = "task"
        /\ \E raised \in BOOLEAN : worker_finish(w, raised)
        /\ UNCHANGED <<workers, stop_pc, untracked, queue, running, now>>
        /\ UNCHANGED <<quotaVars, cacheVars, calls, ret, histVars>>

InitSched ==
    /\ SchedInit(MaxWorkers)
    /\ now = 0
    /\ FreshStore
    /\ EmptyCache
    /\ NoCalls

NextSched ==
    \/ SchedTick
    \/ SchedStart
    \/ SchedSubmit
    \/ SchedWorkerGet
    \/ SchedWorkerRun

SpecSched == InitSched /\ [][NextSched]_vars

\* ------------------------------------ SpecStop: start, the workers and stop
\* The scheduler alone again, with its whole life cycle: start() at any time
\* outside a stop() in progress, stop() in its two parts, and the workers
\* returning when the shutdown flag is down. ret keeps what the last call or
\* the last execution did.
StopSubmits == {<<GOLD, 50>>}

StopStart ==
    /\ ~Stopping
    /\ start
    /\ ret' = [op |-> "start", was_running |-> running]
    /\ UNCHANGED <<workers, stop_pc, untracked, queue, unfinished_tasks, stats, now>>
    /\ UNCHANGED <<quotaVars, cacheVars, calls, histVars>>

StopSubmit ==
    /\ stats.submitted < MaxOps
    /\ \E a \in StopSubmits : submit(TaskFn, "t1", a[1], a[2])
    /\ UNCHANGED <<workers, stop_pc, untracked, running, worker_tasks, now>>
    /\ UNCHANGED <<quotaVars, cacheVars, calls, ret, histVars>>

StopWorkerGet ==
    \E w \in 1..MaxWorkers :
        /\ worker_get(w)
        /\ UNCHANGED <<workers, stop_pc, untracked, unfinished_tasks, stats, running, now>>
        /\ UNCHANGED <<quotaVars, cacheVars, calls, ret, histVars>>

StopWorkerRun ==
    \E w \in DOMAIN worker_tasks :
        /\ worker_tasks[w].pc = "run"
        /\ \E raised \in BOOLEAN :
               /\ worker_finish(w, raised)
               /\ ret' = [op |-> "execute", worker |-> w,
                          id |-> worker_tasks[w].op[1].id, raised |-> raised,
                          was_running |-> running]
        /\ UNCHANGED <<workers, stop_pc, untracked, queue, running, now>>
        /\ UNCHANGED <<quotaVars, cacheVars, calls, histVars>>

StopWorkerExit ==
    \E w \in 1..MaxWorkers :
        /\ worker_exit(w)
        /\ UNCHANGED <<workers, stop_pc, untracked, queue, unfinished_tasks, stats, running, now>>
        /\ UNCHANGED <<quotaVars, cacheVars, calls, ret, histVars>>

StopSignal ==
    /\ ~Stopping
    /\ stop_signal
    /\ ret' = [op |-> "stop", was_running |-> running]
    /\ UNCHANGED <<workers, stop_pc, untracked, queue, unfinished_tasks, stats, worker_tasks, now>>
    /\ UNCHANGED <<quotaVars, cacheVars, calls, histVars>>

StopCancel ==
    /\ stop_cancel
    /\ ret' = [op |-> "stopped",
               aborted |-> {worker_tasks[w].op[1].id : w \in Executing},
               drained |-> unfinished_tasks = 0]
    /\ UNCHANGED <<workers, stop_pc, untracked, queue, stats, running, now>>
    /\ UNCHANGED <<quotaVars, cacheVars, calls, histVars>>

NextStop ==
    \/ StopStart
    \/ StopSubmit
    \/ StopWorkerGet
    \/ StopWorkerRun
    \/ StopWorkerExit
    \/ StopSignal
    \/ StopCancel

SpecStop == InitSched /\ [][NextStop]_vars

\* ------------------------- SpecOverlap: start() and stop() calls overlapping
\* The scheduler alone, with start() called at any time, also while a stop()
\* call is suspended in wait_for(queue.join()) or in gather. One stop() call
\* is in progress at a time. The tasks self._worker_tasks lost run on like
\* the others. ret keeps the last health report.
OverlapStart ==
    /\ ~running =>
           Len(untracked) + Cardinality(LiveTracked) + workers <= MaxUntracked
    /\ start_over
    /\ UNCHANGED <<workers, queue, unfinished_tasks, stats, stop_pc, now>>
    /\ UNCHANGED <<quotaVars, cacheVars, calls, ret, histVars>>

OverlapSubmit ==
    /\ stats.submitted < MaxOps
    /\ \E a \in StopSubmits : submit(TaskFn, "t1", a[1], a[2])
    /\ UNCHANGED <<workers, running, worker_tasks, stop_pc, untracked, now>>
    /\ UNCHANGED <<quotaVars, cacheVars, calls, ret, histVars>>

OverlapWorkerGet ==
    \E w \in 1..MaxWorkers :
        /\ worker_get(w)
        /\ UNCHANGED <<workers, unfinished_tasks, stats, running, stop_pc,
                       untracked, now>>
        /\ UNCHANGED <<quotaVars, cacheVars, calls, ret, histVars>>

OverlapWorkerRun ==
    \E w \in DOMAIN worker_tasks :
        /\ worker_tasks[w].pc = "run"
        /\ \E raised \in BOOLEAN : worker_finish(w, raised)
        /\ UNCHANGED <<workers, queue, running, stop_pc, untracked, now>>
        /\ UNCHANGED <<quotaVars, cacheVars, calls, ret, histVars>>

OverlapWorkerExit ==
    \E w \in 1..MaxWorkers :
        /\ worker_exit(w)
        /\ UNCHANGED <<workers, queue, unfinished_tasks, stats, running,
                       stop_pc, untracked, now>>
        /\ UNCHANGED <<quotaVars, cacheVars, calls, ret, histVars>>

OverlapUntrackedGet ==
    \E u \in 1..MaxUntracked :
        /\ untracked_get(u)
        /\ UNCHANGED <<workers, unfinished_tasks, stats, running, worker_tasks,
                       stop_pc, now>>
        /\ UNCHANGED <<quotaVars, cacheVars, calls, ret, histVars>>

OverlapUntrackedRun ==
    \E u \in 1..MaxUntracked :
        /\ \E raised \in BOOLEAN : untracked_finish(u, raised)
        /\ UNCHANGED <<workers, queue, running, worker_tasks, stop_pc, now>>
        /\ UNCHANGED <<quotaVars, cacheVars, calls, ret, histVars>>

OverlapUntrackedExit ==
    \E u \in 1..MaxUntracked :
        /\ untracked_exit(u)
        /\ UNCHANGED <<workers, queue, unfinished_tasks, stats, running,
                       worker_tasks, stop_pc, now>>
        /\ UNCHANGED <<quotaVars, cacheVars, calls, ret, histVars>>

OverlapStopEnter ==
    /\ stop_enter
    /\ UNCHANGED <<workers, queue, unfinished_tasks, stats, worker_tasks,
                   untracked, now>>
    /\ UNCHANGED <<quotaVars, cacheVars, calls, ret, histVars>>

OverlapStopCancel ==
    /\ stop_cancel_tasks
    /\ UNCHANGED <<workers, queue, stats, running, untracked, now>>
    /\ UNCHANGED <<quotaVars, cacheVars, calls, ret, histVars>>

OverlapStopForget ==
    /\ stop_forget
    /\ UNCHANGED <<workers, queue, unfinished_tasks, stats, running, now>>
    /\ UNCHANGED <<quotaVars, cacheVars, calls, ret, histVars>>

OverlapHealthCheck ==
    /\ ret' = [op |-> "health_check", report |-> health_check]
    /\ UNCHANGED <<schedVars, now>>
    /\ UNCHANGED <<quotaVars, cacheVars, calls, histVars>>

NextOverlap ==
    \/ OverlapStart
    \/ OverlapSubmit
    \/ OverlapWorkerGet
    \/ OverlapWorkerRun
    \/ OverlapWorkerExit
    \/ OverlapUntrackedGet
    \/ OverlapUntrackedRun
    \/ OverlapUntrackedExit
    \/ OverlapStopEnter
    \/ OverlapStopCancel
    \/ OverlapStopForget
    \/ OverlapHealthCheck

SpecOverlap == InitSched /\ [][NextOverlap]_vars

\* ------------------------------------------------ SpecKey: build_cache_key
\* build_cache_key applied to the arguments execute_gaql gives it: tenant ids
\* and query texts as the API takes them (any string), page sizes, and the
\* two orders of the keyword arguments. ret keeps the last call and the one
\* before it.
KeyClients ==
    {<<"a">>, <<"b">>,
     <<"a", ":", "gaql", ":", "page_size", "=", "1", ":", "query", "=", "x">>}
KeyQueries ==
    {<<"x">>, <<"z">>,
     <<"x", ":", "gaql", ":", "page_size", "=", "1", ":", "query", "=", "z">>}
KeyPageSizes == {<<"1">>, <<"1000">>}
KeyParams ==
    UNION {{<<<<"query", q>>, <<"page_size", n>>>>,
            <<<<"page_size", n>>, <<"query", q>>>>} :
               q \in KeyQueries, n \in KeyPageSizes}

BuildCacheKey ==
    /\ \E client_id \in KeyClients, params \in KeyParams :
           ret' = [op |-> "build_cache_key",
                   call |-> [client_id |-> client_id,
                             operation |-> <<"gaql">>,
                             params |-> params,
                             key |-> build_cache_key(client_id, <<"gaql">>, params)],
                   before |-> IF ret.op = "build_cache_key"
                              THEN Some(ret.call) ELSE None]
    /\ UNCHANGED <<schedVars, now, quotaVars, cacheVars, calls, histVars>>

NextKey == BuildCacheKey

SpecKey == InitSched /\ [][NextKey]_vars

\* --------------------------------------------- SpecQuota: the QuotaGovernor
\* Arguments of the direct calls.
DailyQuotas == {0, 100, 400}
ClientQuotas == {0, 50}
Units == {0, 50}
ChargeUnits == {50}

QuotaFrame == UNCHANGED <<schedVars, now, cacheVars, calls, histVars>>

ResetGlobalQuota ==
    \E d \in DailyQuotas, ok \in BOOLEAN :
        /\ reset_global_quota(d, ok)
        /\ ret' = [op |-> "reset_global_quota", raised |-> ~ok]
        /\ UNCHANGED <<client_remaining, client_tier, client_paused>>
        /\ QuotaFrame

SetClientQuota ==
    \E t \in Tenants, q \in ClientQuotas, ok \in BOOLEAN :
        /\ set_client_quota(t, q, ok)
        /\ ret' = [op |-> "set_client_quota", raised |-> ~ok]
        /\ UNCHANGED <<global_daily, global_remaining, client_tier, client_paused>>
        /\ QuotaFrame

Charge ==
    \E t \in Tenants, u \in ChargeUnits, ok \in BOOLEAN :
        /\ IntOr(global_remaining, 0) > -MaxDrift
        /\ IntOr(client_remaining[t], 0) > -MaxDrift
        /\ charge(t, u, ok)
        /\ ret' = [op |-> "charge", client_id |-> t, units |-> u, ok |-> ok,
                   raised |-> FALSE,
                   before |-> [global |-> IntOr(global_remaining, 0),
                               client |-> IntOr(client_remaining[t], 0)]]
        /\ UNCHANGED <<global_daily, client_tier, client_paused>>
        /\ QuotaFrame

Refund ==
    \E t \in Tenants, u \in ChargeUnits, ok \in BOOLEAN :
        /\ IntOr(global_remaining, 0) < IntOr(global_daily, 0)
        /\ IntOr(client_remaining[t], 0) < MaxDrift
        /\ refund(t, u, ok)
        /\ ret' = [op |-> "refund", client_id |-> t, units |-> u, ok |-> ok,
                   raised |-> FALSE,
                   before |-> [global |-> IntOr(global_remaining, 0),
                               client |-> IntOr(client_remaining[t], 0)]]
        /\ UNCHANGED <<global_daily, client_tier, client_paused>>
        /\ QuotaFrame

CanRun ==
    \E t \in Tenants, u \in Units, tier \in SLATier, ok \in BOOLEAN :
        /\ ret' = [op |-> "can_run", client_id |-> t, units |-> u, tier |-> tier,
                   ok |-> ok, value |-> can_run(t, u, tier, ok)]
        /\ UNCHANGED quotaVars
        /\ QuotaFrame

InitQuota ==
    /\ SchedInit(MaxWorkers)
    /\ now = 0
    /\ FreshStore
    /\ EmptyCache
    /\ NoCalls

NextQuota ==
    \/ ResetGlobalQuota
    \/ SetClientQuota
    \/ Charge
    \/ Refund
    \/ CanRun

SpecQuota == InitQuota /\ [][NextQuota]_vars

\* ---------------------------------------------- SpecCache: the CacheManager
\* Values handed to set(): a list and a tuple.
CacheValues == {Value("list", <<"a">>), Value("tuple", <<"a">>)}
\* (service_type, ttl) arguments handed to set().
SetTtls == {<<"default", None>>, <<"default", Some(1)>>}

CacheFrame ==
    UNCHANGED <<schedVars, now, quotaVars, calls, peak_unfinished, last_access>>

CacheOpsLeft ==
    hot_stats.hits + hot_stats.misses + hot_stats.sets < MaxCacheOps

\* last_write after the LRU evicted a key
NoteEvicted(lw, evicted) ==
    [k \in CacheKeys |->
        IF evicted = Some(k) /\ lw[k] # None
        THEN Some([lw[k][1] EXCEPT !.evicted = TRUE])
        ELSE lw[k]]

CacheGet ==
    \E k \in CacheKeys, ok \in BOOLEAN :
        LET r == CacheManager_get(k, ok)
        IN  /\ CacheOpsLeft
            /\ hot_cache' = r.hot_cache
            /\ hot_stats' = r.hot_stats
            /\ redis_cache' = redis_cache
            /\ ret' = [op |-> "get", key |-> k, value |-> r.value,
                       logged |-> r.logged, at |-> now]
            /\ last_write' = NoteEvicted(last_write, r.evicted)
            /\ CacheFrame

CacheSet ==
    \E k \in CacheKeys, v \in CacheValues, a \in SetTtls, ok \in BOOLEAN :
        /\ CacheOpsLeft
        /\ CacheManager_set(k, v, a[1], a[2], ok)
        /\ ret' = [op |-> "set", key |-> k, value |-> None, logged |-> ~ok]
        /\ last_write' =
               [NoteEvicted(last_write,
                            LRUCache_set(hot_cache, hot_stats, k, v, LruMaxsize).evicted)
                   EXCEPT ![k] = Some([value |-> v,
                                       expires_at |-> now + cache_ttl(a[1], a[2]),
                                       stored |-> ok,
                                       evicted |-> FALSE])]
        /\ CacheFrame

CacheDelete ==
    \E k \in CacheKeys, ok \in BOOLEAN :
        /\ CacheManager_delete(k, ok)
        /\ ret' = [op |-> "delete", key |-> k, value |-> None, logged |-> ~ok]
        /\ last_write' = [last_write EXCEPT ![k] = None]
        /\ CacheFrame

InitCache ==
    /\ SchedInit(MaxWorkers)
    /\ now = 0
    /\ FreshStore
    /\ EmptyCache
    /\ NoCalls

NextCache ==
    \/ Tick
    \/ CacheGet
    \/ CacheSet
    \/ CacheDelete

SpecCache == InitCache /\ [][NextCache]_vars

\* --------------------------------------------------- SpecLru: the LRUCache
\* The value every set() of SpecLru stores.
LruStored == Value("list", <<"a">>)

\* get / set calls made so far on the LRUCache.
LruClock(st) == st.hits + st.misses + st.sets

LruFrame ==
    UNCHANGED <<schedVars, now, quotaVars, redis_cache, calls, last_write,
                peak_unfinished>>

LruGet ==
    \E k \in LruKeys :
        LET r == LRUCache_get(hot_cache, hot_stats, k)
        IN  /\ LruClock(hot_stats) < MaxLruOps
            /\ hot_cache' = r.cache
            /\ hot_stats' = r.stats
            /\ ret' = [op |-> "lru_get", key |-> k, value |-> r.value,
                       evicted |-> None]
            /\ last_access' =
                   IF r.value # None
                   THEN [last_access EXCEPT ![k] = LruClock(r.stats)]
                   ELSE last_access
            /\ LruFrame

LruSet ==
    \E k \in LruKeys :
        LET s == LRUCache_set(hot_cache, hot_stats, k, LruStored, LruTestSize)
        IN  /\ LruClock(hot_stats) < MaxLruOps
            /\ hot_cache' = s.cache
            /\ hot_stats' = s.stats
            /\ ret' = [op |-> "lru_set", key |-> k, value |-> None,
                       evicted |-> s.evicted]
            /\ last_access' = [last_access EXCEPT ![k] = LruClock(s.stats)]
            /\ LruFrame

NextLru ==
    \/ LruGet
    \/ LruSet

SpecLru == InitCache /\ [][NextLru]_vars

\* ------------------------------------ Spec, SpecSerial: the manager at work
\* Arguments of the execute_* calls, all with the default urgency: reads of
\* t1 through the cache, reads of t2 past it, mutates of t1 with
\* 1..MaxOperations operations.
GaqlRequests == {<<"t1", DEFAULT_URGENCY_GAQL, TRUE>>, <<"t2", DEFAULT_URGENCY_GAQL, FALSE>>}
MutateRequests == {"t1"} \X {DEFAULT_URGENCY_MUTATE} \X (1..MaxOperations)
\* What an upstream attempt does: it returns, or raises a code that is not
\* retried.
UpstreamCodes == {"OK", "INVALID_ARGUMENT"}
\* GLOBAL_DAILY_QUOTA the application starts with, and the quota and tier the
\* tenants were given before traffic.
StartQuotas == {20, 70}
TenantQuota == [t \in Tenants |-> Some(60)]
TenantTier == [t \in Tenants |-> IF t = "t1" THEN Some(GOLD) ELSE None]

\* Calls are numbered in the order they are made.
NextCall(c) ==
    /\ calls[c].pc = "new"
    /\ \A d \in 1..(c - 1) : calls[d].pc # "new"
InProgress(c) == calls[c].pc \notin {"new", "done"}

\* execute_gaql is called and runs to its first suspension that another
\* coroutine can tell apart. serial: the call is made only when no other
\* call is in progress.
ExecuteGaql(serial, requests) ==
    \E c \in 1..MaxCalls, a \in requests :
        /\ NextCall(c)
        /\ serial => \A d \in 1..MaxCalls : ~InProgress(d)
        /\ IF a[3]
           THEN /\ cache_lookup(c, GAQLRequest(a[1], a[2], a[3]), TRUE)
                /\ UNCHANGED <<schedVars, peak_unfinished>>
           ELSE /\ admit(c, GAQLRequest(a[1], a[2], a[3]), TRUE)
                /\ peak_unfinished' = Max(peak_unfinished, unfinished_tasks')
                /\ UNCHANGED <<workers, stop_pc, untracked, running, worker_tasks, cacheVars>>
        /\ UNCHANGED <<now, quotaVars, ret, last_write, last_access>>

ExecuteMutate(serial, requests) ==
    \E c \in 1..MaxCalls, a \in requests :
        /\ NextCall(c)
        /\ serial => \A d \in 1..MaxCalls : ~InProgress(d)
        /\ admit(c, MutateRequest(a[1], a[2], a[3]), TRUE)
        /\ peak_unfinished' = Max(peak_unfinished, unfinished_tasks')
        /\ UNCHANGED <<workers, stop_pc, untracked, running, worker_tasks, now>>
        /\ UNCHANGED <<quotaVars, cacheVars, ret, last_write, last_access>>

\* execute_gaql goes on after a cache miss
Admit ==
    \E c \in 1..MaxCalls :
        /\ calls[c].pc = "gate"
        /\ admit(c, calls[c], TRUE)
        /\ peak_unfinished' = Max(peak_unfinished, unfinished_tasks')
        /\ UNCHANGED <<workers, stop_pc, untracked, running, worker_tasks, now>>
        /\ UNCHANGED <<quotaVars, cacheVars, ret, last_write, last_access>>

AwaitReturn ==
    \E c \in 1..MaxCalls :
        /\ calls[c].pc = "wait"
        /\ calls[c].released
        /\ await_return(c)
        /\ UNCHANGED <<schedVars, now, quotaVars, cacheVars, ret, histVars>>

AwaitTimeout ==
    \E c \in 1..MaxCalls :
        /\ calls[c].pc = "wait"
        /\ ~calls[c].released
        /\ await_timeout(c)
        /\ UNCHANGED <<schedVars, now, quotaVars, cacheVars, ret, histVars>>

CacheStore ==
    \E c \in 1..MaxCalls :
        /\ calls[c].pc = "store"
        /\ cache_store(c, TRUE)
        /\ UNCHANGED <<schedVars, now, quotaVars, ret, histVars>>

WorkerGet ==
    \E w \in 1..MaxWorkers :
        /\ worker_get(w)
        /\ UNCHANGED <<workers, stop_pc, untracked, unfinished_tasks, stats, running, now>>
        /\ UNCHANGED <<quotaVars, cacheVars, calls, ret, histVars>>

WorkerUpstream(codes) ==
    \E w \in DOMAIN worker_tasks, error_code \in codes :
        /\ worker_tasks[w].pc = "run"
        /\ worker_tasks[w].op[1].fn.name = "wrapped_operation"
        /\ worker_upstream(w, error_code)
        /\ UNCHANGED <<workers, stop_pc, untracked, queue, running, now>>
        /\ UNCHANGED <<quotaVars, cacheVars, ret, histVars>>

WorkerCharge ==
    \E w \in DOMAIN worker_tasks :
        /\ worker_tasks[w].pc = "charge"
        /\ worker_charge(w, TRUE)
        /\ UNCHANGED <<workers, stop_pc, untracked, queue, running, now>>
        /\ UNCHANGED <<global_daily, client_tier, client_paused>>
        /\ UNCHANGED <<cacheVars, ret, histVars>>

\* POST /admin/clients/{id}/pause
Pause ==
    \E t \in Tenants :
        /\ ~client_paused[t]
        /\ pause_client(t, TRUE)
        /\ UNCHANGED <<global_daily, global_remaining, client_remaining, client_tier>>
        /\ UNCHANGED <<schedVars, now, cacheVars, calls, ret, histVars>>

\* POST /admin/clients/{id}/resume
Resume ==
    \E t \in Tenants :
        /\ client_paused[t]
        /\ resume_client(t, TRUE)
        /\ calls' = [c \in 1..MaxCalls |->
                        IF calls[c].client_id = t /\ calls[c].pc # "done"
                        THEN [calls[c] EXCEPT !.in_pause = FALSE]
                        ELSE calls[c]]
        /\ UNCHANGED <<global_daily, global_remaining, client_remaining, client_tier>>
        /\ UNCHANGED <<schedVars, now, cacheVars, ret, histVars>>

\* POST /admin/quota/global between two requests
ResetGlobalTo(d) ==
    /\ \A c \in 1..MaxCalls : ~InProgress(c)
    /\ reset_global_quota(d, TRUE)
    /\ UNCHANGED <<client_remaining, client_tier, client_paused>>
    /\ UNCHANGED <<schedVars, now, cacheVars, calls, ret, histVars>>

ResetGlobal == \E d \in StartQuotas : ResetGlobalTo(d)

\* api_server lifespan: reset_global_quota(GLOBAL_DAILY_QUOTA), the scheduler
\* constructed and started, an empty CacheManager; the tenants provisioned.
Init ==
    /\ workers = MaxWorkers
    /\ queue = <<>>
    /\ unfinished_tasks = 0
    /\ stats = SchedulerStatsInit
    /\ running = TRUE
    /\ worker_tasks = [i \in 1..MaxWorkers |-> WorkerAt("get", None)]
    /\ stop_pc = "idle"
    /\ untracked = <<>>
    /\ now = 0
    /\ \E d \in StartQuotas :
           /\ global_daily = Some(d)
           /\ global_remaining = Some(d)
    /\ client_remaining = TenantQuota
    /\ client_tier = TenantTier
    /\ client_paused = [t \in Tenants |-> FALSE]
    /\ EmptyCache
    /\ NoCalls

\* Spec: calls that overlap, none timing out.

Next ==
    \/ ExecuteGaql(FALSE, GaqlRequests)
    \/ ExecuteMutate(FALSE, MutateRequests)
    \/ Admit
    \/ AwaitReturn
    \/ CacheStore
    \/ WorkerGet
    \/ WorkerUpstream(UpstreamCodes)
    \/ WorkerCharge

Spec == Init /\ [][Next]_vars

\* SpecSerial: one call at a time, calls that time out, and the global quota
\* reset between calls. The reads go past the cache.
SerialReads == {<<"t2", DEFAULT_URGENCY_GAQL, FALSE>>}

NextSerial ==
    \/ ExecuteGaql(TRUE, SerialReads)
    \/ ExecuteMutate(TRUE, MutateRequests)
    \/ AwaitReturn
    \/ AwaitTimeout
    \/ WorkerGet
    \/ WorkerUpstream(UpstreamCodes)
    \/ WorkerCharge
    \/ ResetGlobal

SpecSerial == Init /\ [][NextSerial]_vars

\* SpecTimeout: one call at a time, calls that time out, and the workers'
\* loops running on: a step a worker can take is eventually taken.
TimeoutCallsLeft == calls[MaxTimeoutCalls].pc = "new"

NextTimeout ==
    \/ TimeoutCallsLeft /\ ExecuteGaql(TRUE, SerialReads)
    \/ TimeoutCallsLeft /\ ExecuteMutate(TRUE, MutateRequests)
    \/ AwaitReturn
    \/ AwaitTimeout
    \/ WorkerGet
    \/ WorkerUpstream(UpstreamCodes)
    \/ WorkerCharge

SpecTimeout ==
    /\ Init
    /\ [][NextTimeout]_vars
    /\ WF_vars(WorkerGet)
    /\ WF_vars(WorkerUpstream(UpstreamCodes))
    /\ WF_vars(WorkerCharge)

\* SpecDrain: calls that overlap, none timing out, on a scheduler that keeps
\* running: the event loop runs every task that can take a step, so a step a
\* worker or a released call can take is eventually taken.
DrainCallsLeft == calls[MaxDrainCalls].pc = "new"

NextDrain ==
    \/ DrainCallsLeft /\ ExecuteGaql(FALSE, SerialReads)
    \/ DrainCallsLeft /\ ExecuteMutate(FALSE, MutateRequests)
    \/ AwaitReturn
    \/ WorkerGet
    \/ WorkerUpstream(UpstreamCodes)
    \/ WorkerCharge

SpecDrain ==
    /\ Init
    /\ [][NextDrain]_vars
    /\ WF_vars(AwaitReturn)
    /\ WF_vars(WorkerGet)
    /\ WF_vars(WorkerUpstream(UpstreamCodes))
    /\ WF_vars(WorkerCharge)

\* SpecShutdown: calls in flight while the application shuts down and
\* stop() cancels the workers. A charge cancelled inside its await has
\* reached the store or has not.
RECURSIVE ChargesApplied(_, _, _)
ChargesApplied(applied, n, balances) ==
    IF n = 0 THEN balances
    ELSE LET b == ChargesApplied(applied, n - 1, balances)
             c == calls[worker_tasks[n].op[1].fn.call]
         IN  IF n \in applied
             THEN [global |-> Some(IntOr(b.global, 0) - c.quota_units),
                   client |-> [b.client EXCEPT
                                  ![c.client_id] = Some(IntOr(@, 0) - c.quota_units)]]
             ELSE b

ShutdownCancel ==
    /\ stop_cancel
    /\ \E applied \in SUBSET {w \in DOMAIN worker_tasks :
                                 worker_tasks[w].pc = "charge"} :
           LET b == ChargesApplied(applied, Len(worker_tasks),
                                   [global |-> global_remaining,
                                    client |-> client_remaining])
           IN  /\ global_remaining' = b.global
               /\ client_remaining' = b.client
    /\ calls' = Release(calls, unfinished_tasks')
    /\ ret' = [op |-> "stopped",
               aborted |-> {worker_tasks[w].op[1].id : w \in Executing},
               drained |-> unfinished_tasks = 0]
    /\ UNCHANGED <<workers, stop_pc, untracked, queue, stats, running, now>>
    /\ UNCHANGED <<global_daily, client_tier, client_paused>>
    /\ UNCHANGED <<cacheVars, histVars>>

NextShutdown ==
    \/ DrainCallsLeft /\ ExecuteGaql(FALSE, SerialReads)
    \/ DrainCallsLeft /\ ExecuteMutate(FALSE, MutateRequests)
    \/ AwaitReturn
    \/ AwaitTimeout
    \/ WorkerGet
    \/ WorkerUpstream(UpstreamCodes)
    \/ WorkerCharge
    \/ StopWorkerExit
    \/ running /\ StopSignal
    \/ ShutdownCancel

SpecShutdown == Init /\ [][NextShutdown]_vars

\* SpecPause: one call at a time, none timing out, while tenants are paused
\* and resumed.
NextPause ==
    \/ ExecuteGaql(TRUE, GaqlRequests)
    \/ ExecuteMutate(TRUE, MutateRequests)
    \/ Admit
    \/ AwaitReturn
    \/ CacheStore
    \/ WorkerGet
    \/ WorkerUpstream(UpstreamCodes)
    \/ WorkerCharge
    \/ Pause
    \/ Resume

SpecPause == Init /\ [][NextPause]_vars
\* SpecRead: cached reads, one call at a time. A search returns rows, returns
\* no rows or fails; the shared-store write of a cache set may fail.
ReadRequests ==
    {<<"t1", DEFAULT_URGENCY_GAQL, TRUE>>, <<"t2", DEFAULT_URGENCY_GAQL, TRUE>>}
ReadCodes == {"OK", "EMPTY", "INVALID_ARGUMENT"}

CacheStoreBestEffort ==
    \E c \in 1..MaxCalls, ok \in BOOLEAN :
        /\ calls[c].pc = "store"
        /\ cache_store(c, ok)
        /\ ret' = [op |-> "set", key |-> GaqlKey(calls[c].client_id),
                   value |-> None, logged |-> ~ok]
        /\ UNCHANGED <<schedVars, now, quotaVars, histVars>>

NextRead ==
    \/ ExecuteGaql(TRUE, ReadRequests)
    \/ Admit
    \/ AwaitReturn
    \/ CacheStoreBestEffort
    \/ WorkerGet
    \/ WorkerUpstream(ReadCodes)
    \/ WorkerCharge

SpecRead == Init /\ [][NextRead]_vars

\* SpecRetry: one call at a time, none timing out. An upstream attempt
\* returns, or raises a transient code, a code unknown to the error map, or
\* a permanent code.
RetryReads == {<<"t1", DEFAULT_URGENCY_GAQL, TRUE>>}
RetryMutates == {<<"t1", DEFAULT_URGENCY_MUTATE, 1>>}
RetryCodes ==
    {"OK", "AUTHENTICATION_ERROR", "AUTHORIZATION_ERROR", "QUOTA_ERROR",
     "RATE_LIMIT_ERROR", "RESOURCE_EXHAUSTED", "INVALID_ARGUMENT", "NOT_FOUND",
     "ALREADY_EXISTS", "DEADLINE_EXCEEDED", "INTERNAL_ERROR", "UNAVAILABLE",
     "UNKNOWN"}
RetryCallsLeft == calls[MaxRetryCalls].pc = "new"

NextRetry ==
    \/ RetryCallsLeft /\ ExecuteGaql(TRUE, RetryReads)
    \/ RetryCallsLeft /\ ExecuteMutate(TRUE, RetryMutates)
    \/ Admit
    \/ AwaitReturn
    \/ CacheStore
    \/ WorkerGet
    \/ WorkerUpstream(RetryCodes)
    \/ WorkerCharge

SpecRetry == Init /\ [][NextRetry]_vars

\* SpecWrite: cached reads and mutates of one tenant, one call at a time,
\* none timing out; a mutate carries 0..MaxWriteOperations operations.
WriteRequests == {"t1"} \X {DEFAULT_URGENCY_MUTATE} \X (0..MaxWriteOperations)

NextWrite ==
    \/ ExecuteGaql(TRUE, RetryReads)
    \/ ExecuteMutate(TRUE, WriteRequests)
    \/ Admit
    \/ AwaitReturn
    \/ CacheStore
    \/ WorkerGet
    \/ WorkerUpstream(UpstreamCodes)
    \/ WorkerCharge

SpecWrite == Init /\ [][NextWrite]_vars

\* ------------------------------------------------ scheduler: claims C5..C7
\* The operation a worker holds, and the step in which worker w gets one.
Range(f) == {f[i] : i \in DOMAIN f}
Queued == Range(queue)
Held(w) == worker_tasks[w].op[1]
Dequeues(w) ==
    /\ w \in DOMAIN worker_tasks
    /\ w \in DOMAIN worker_tasks'
    /\ worker_tasks[w].pc = "get"
    /\ worker_tasks'[w].pc = "run"

TierRank(tier) == CASE tier = GOLD -> 3 [] tier = SILVER -> 2 [] OTHER -> 1

\* C5 (priority ordering): whenever a worker dequeues an operation, no
\* operation left in the queue has a strictly smaller priority integer, and
\* none with the same priority has an earlier submitted_at (timestamp).
C5_PriorityOrdering ==
    [][\A w \in 1..MaxWorkers : Dequeues(w) =>
          \A o \in Range(queue') :
              /\ ~(o.priority < worker_tasks'[w].op[1].priority)
              /\ ~(/\ o.priority = worker_tasks'[w].op[1].priority
                   /\ o.timestamp < worker_tasks'[w].op[1].timestamp)]_vars

\* C5 witness: a worker holds an operation that overtook an earlier
\* submission of larger priority value, while an operation of the same
\* priority and a later timestamp still waits.
C5_Witness ==
    \E w \in DOMAIN worker_tasks :
        /\ worker_tasks[w].pc = "run"
        /\ \E o \in Queued : o.id < Held(w).id /\ o.priority > Held(w).priority
        /\ \E o \in Queued : /\ o.priority = Held(w).priority
                            /\ o.timestamp > Held(w).timestamp

\* C6 (tier-monotone preference): of two queued operations with the same
\* urgency and different tiers, the higher tier is dequeued no later: a
\* dequeue never leaves behind an operation of the same urgency and a higher
\* tier.
C6_TierMonotone ==
    [][\A w \in 1..MaxWorkers : Dequeues(w) =>
          \A o \in Range(queue') :
              ~(/\ o.urgency = worker_tasks'[w].op[1].urgency
                /\ TierRank(o.tier) > TierRank(worker_tasks'[w].op[1].tier))]_vars

\* C7 (priority function): every operation submit() put on the queue, for every tier
\* and every urgency argument, has priority (100 - clamp(urgency, 0, 99))
\* integer-divided by the tier weight, within 0..100, with Bronze/99 -> 1,
\* Gold/50 -> 16, Silver/50 -> 25; and Bronze-99 leaves the queue before
\* Gold-50, which leaves it before Silver-50.
ClaimedWeight(tier) == CASE tier = GOLD -> 3 [] tier = SILVER -> 2 [] tier = BRONZE -> 1
ClaimedClamp(u) == IF u < 0 THEN 0 ELSE IF u > 99 THEN 99 ELSE u
IsOp(o, tier, u) == o.tier = tier /\ o.urgency_in = u
C7_PriorityValues ==
    \A o \in Queued :
        /\ o.priority = (100 - ClaimedClamp(o.urgency_in)) \div ClaimedWeight(o.tier)
        /\ o.priority \in 0..100
        /\ IsOp(o, BRONZE, 99) => o.priority = 1
        /\ IsOp(o, GOLD, 50) => o.priority = 16
        /\ IsOp(o, SILVER, 50) => o.priority = 25
C7_DequeueOrder ==
    \A w \in 1..MaxWorkers : Dequeues(w) =>
        /\ IsOp(worker_tasks'[w].op[1], GOLD, 50) =>
               ~\E o \in Range(queue') : IsOp(o, BRONZE, 99)
        /\ IsOp(worker_tasks'[w].op[1], SILVER, 50) =>
               ~\E o \in Range(queue') : IsOp(o, BRONZE, 99) \/ IsOp(o, GOLD, 50)
\* C7 (priority function), as a property of every step: the queue holds
\* only operations with the priority values above, and every dequeue keeps
\* the order Bronze-99, Gold-50, Silver-50.
C7_PriorityFunction == [][C7_PriorityValues' /\ C7_DequeueOrder]_vars

\* C7 witness: Bronze/99, Gold/50 and Silver/50 were submitted in that order
\* before any dequeue, and the first dequeue took Bronze-99.
C7_Witness ==
    /\ stats.submitted = 3
    /\ stats.completed + stats.failed = 0
    /\ \E w \in DOMAIN worker_tasks :
           /\ worker_tasks[w].pc = "run"
           /\ IsOp(Held(w), BRONZE, 99) /\ Held(w).id = 1
           /\ \E g, sv \in Queued :
                  /\ Queued = {g, sv}
                  /\ IsOp(g, GOLD, 50) /\ g.id = 2
                  /\ IsOp(sv, SILVER, 50) /\ sv.id = 3

\* ------------------------------------------------ quota: claims C1..C4
\* The calls whose upstream call returned, and among them the calls whose
\* debit has been applied: a worker between "result = await operation()" and
\* the return of charge() still holds the operation.
Succeeded(c) == calls[c].result_container # None
AwaitsDebit(c) ==
    \E w \in DOMAIN worker_tasks :
        /\ worker_tasks[w].pc = "charge"
        /\ worker_tasks[w].op[1].fn.call = c
Debited(c) == Succeeded(c) /\ ~AwaitsDebit(c)

RECURSIVE SumCost(_, _)
SumCost(P(_), n) ==
    IF n = 0 THEN 0
    ELSE (IF P(n) THEN calls[n].quota_units ELSE 0) + SumCost(P, n - 1)

Spent == IntOr(global_daily, 0) - IntOr(global_remaining, 0)
CacheHit(c) ==
    /\ calls[c].pc = "done"
    /\ calls[c].outcome[1].how = "return"
    /\ calls[c].attempts = 0
Failed(c) == calls[c].pc = "done" /\ calls[c].error_container # None
Refused(c) ==
    /\ calls[c].pc = "done"
    /\ calls[c].outcome = Some(Raised(QuotaExceededError))
    /\ calls[c].attempts = 0
TimedOut(c) == calls[c].outcome = Some(Raised(AsyncioTimeoutError))

\* C1 as stated (budget conservation): in every state after the start-up
\* reset, global_daily - global_remaining is the summed cost of the
\* operations whose upstream call has succeeded.
C1_AsStated == Spent = SumCost(Succeeded, MaxCalls)

\* C1 (budget conservation), amended: in every state after the start-up
\* reset, with no admin operation and no store error, global_daily -
\* global_remaining is the summed cost of the operations whose upstream call
\* has succeeded and whose debit has been applied; cache hits, refused
\* requests and failed operations contribute nothing.
C1_BudgetConservation == Spent = SumCost(Debited, MaxCalls)

\* C1 witness: one call was served upstream and debited, one was answered
\* from the cache, one failed upstream, and no debit is pending.
C1_Witness ==
    /\ \A c \in 1..MaxCalls : calls[c].pc = "done" /\ ~AwaitsDebit(c)
    /\ \E c \in 1..MaxCalls : Debited(c) /\ calls[c].quota_units > 0
    /\ \E c \in 1..MaxCalls : CacheHit(c)
    /\ \E c \in 1..MaxCalls : Failed(c)

\* The step is reset_global_quota(d) and leaves both keys at d.
ResetLeavesBoth ==
    \A d \in StartQuotas :
        ResetGlobalTo(d) =>
            global_daily' = Some(d) /\ global_remaining' = Some(d)
InRange ==
    /\ 0 <= IntOr(global_remaining, 0)
    /\ IntOr(global_remaining, 0) <= IntOr(global_daily, 0)
NoTimeout == \A c \in 1..MaxCalls : ~TimedOut(c)

\* C2 as stated: reset_global_quota(D) leaves global_daily = global_remaining
\* = D, and with one request at a time 0 <= global_remaining <= global_daily
\* in every state.
C2_AsStated == [][ResetLeavesBoth /\ InRange']_vars

\* C2, amended: reset_global_quota(D) leaves global_daily = global_remaining
\* = D, and with one request at a time, no refund, no store error and no
\* request ended by the wait timeout, 0 <= global_remaining <= global_daily
\* in every state.
C2_ResetAndRange == [][ResetLeavesBoth /\ (NoTimeout' => InRange')]_vars

\* C2 witness: after a 50-unit mutate was debited the quota was reset to 20
\* and two reads used it up, no request having timed out.
C2_Witness ==
    /\ NoTimeout
    /\ global_daily = Some(20)
    /\ global_remaining = Some(0)
    /\ \E c \in 1..MaxCalls : Debited(c) /\ calls[c].quota_units = MUTATE_UNITS

\* The largest cost of one operation.
MaxUnits == Max(READ_UNITS, MUTATE_UNITS * MaxOperations)

InReserve == IntOr(global_remaining, 0) * 100 < 15 * IntOr(global_daily, 1)
Balance(t) == IntOr(client_remaining[t], 0)

\* C4 as stated (Bronze reserve): in the reserve can_run(t, u, BRONZE) is
\* false for every t and u, and can_run(t, u, GOLD) is true for every t
\* whose balance is at least u.
C4_AsStated ==
    InReserve =>
        \A t \in Tenants, u \in Units :
            /\ ~can_run(t, u, BRONZE, TRUE)
            /\ Balance(t) >= u => can_run(t, u, GOLD, TRUE)

\* C4 (Bronze reserve), amended: in the reserve, while the store answers,
\* can_run(t, u, BRONZE) is false for every t and u, and can_run(t, u, GOLD)
\* is true exactly when both the balance of t and global_remaining are at
\* least u; when the store raises, can_run is true for every tier.
C4_BronzeReserve ==
    InReserve =>
        \A t \in Tenants, u \in Units :
            /\ ~can_run(t, u, BRONZE, TRUE)
            /\ can_run(t, u, GOLD, TRUE) <=>
                   (Balance(t) >= u /\ IntOr(global_remaining, 0) >= u)
            /\ \A tier \in SLATier : can_run(t, u, tier, FALSE)

\* C4 witness: in the reserve, with units left globally and for the tenant,
\* can_run has just answered true for GOLD.
C4_Witness ==
    /\ InReserve
    /\ ret.op = "can_run" /\ ret.tier = GOLD /\ ret.ok /\ ret.value
    /\ ret.units > 0
    /\ Balance(ret.client_id) >= ret.units
    /\ ~can_run(ret.client_id, ret.units, BRONZE, TRUE)

\* ------------------------------------------ pause, refusal: claims C8, C9
\* C8 (pause isolation): every execute_* call made for a tenant while it is
\* paused, and finished before it is resumed, fails with a QUOTA error,
\* whatever the cache holds and whatever its cache_enabled flag.
C8_PauseIsolation ==
    \A c \in 1..MaxCalls :
        (calls[c].pc = "done" /\ calls[c].in_pause) =>
            /\ calls[c].outcome[1].how = "raise"
            /\ calls[c].outcome[1].error[1].category = "QUOTA"

\* The step in which call c is refused: it leaves execute_* at the pause
\* check or at can_run, not by a cache hit.
RefusalStep(c) ==
    /\ calls'[c].pc = "done"
    /\ \/ calls[c].pc = "gate"
       \/ calls[c].pc = "new" /\ ~(calls'[c].kind = "gaql" /\ calls'[c].cache_enabled)
RefusalGround(c) ==
    \/ is_client_paused(calls'[c].client_id, TRUE)
    \/ ~can_run(calls'[c].client_id, quota_units(calls'[c]),
                get_client_tier(calls'[c].client_id, TRUE), TRUE)

\* C9 (refusal has no side effects): a call refused at the pause check or
\* because can_run is false fails with a QUOTA error; the step enqueues
\* nothing, makes no upstream call, and changes no balance and no cache
\* entry.
C9_RefusalNoSideEffects ==
    [][\A c \in 1..MaxCalls : RefusalStep(c) =>
          /\ RefusalGround(c)
          /\ calls'[c].outcome = Some(Raised(QuotaExceededError))
          /\ QuotaExceededError.category = "QUOTA"
          /\ calls'[c].attempts = 0
          /\ calls'[c].result_container = None
          /\ UNCHANGED <<queue, unfinished_tasks, stats, worker_tasks>>
          /\ UNCHANGED <<global_daily, global_remaining, client_remaining>>
          /\ UNCHANGED <<hot_cache, redis_cache>>]_vars

\* C9 witness: one call was refused for a paused tenant, another was
\* refused by can_run for a tenant that is not paused.
C9_Witness ==
    /\ \E c \in 1..MaxCalls : Refused(c) /\ calls[c].in_pause
    /\ \E c \in 1..MaxCalls :
           /\ Refused(c)
           /\ ~calls[c].in_pause
           /\ \A t \in Tenants : ~client_paused[t]

\* --------------------------------------------------------- cache: claim C10
\* The step is a get(k) of the CacheManager.
GetStep(k) ==
    /\ ret'.op = "get"
    /\ ret'.key = k
    /\ hot_stats'.hits + hot_stats'.misses = hot_stats.hits + hot_stats.misses + 1
\* set(k, v) is the most recent write to k, not deleted and not expired.
LiveWrite(k) == last_write[k] # None /\ now < last_write[k][1].expires_at
JsonStable(v) == json_loads(json_dumps(v)) = v

\* C10 as stated (cache correctness of hit): get(F) returns v whenever
\* set(F, v) is the most recent write to F with no delete(F) and no TTL
\* expiry since, whatever was evicted and whichever store calls failed.
C10_AsStated ==
    [][\A k \in CacheKeys : (GetStep(k) /\ LiveWrite(k)) =>
          ret'.value = Some(last_write[k][1].value)]_vars

\* C10 (cache correctness of hit), amended: get(F) returns v whenever
\* set(F, v) is the most recent write to F with no delete(F) and no TTL
\* expiry since, provided F has not been evicted from the LRU since that
\* set, or else the store write of that set succeeded, v survives the JSON
\* round trip unchanged and the store read of this get does not fail.
C10_CacheHitCorrect ==
    [][\A k \in CacheKeys : (GetStep(k) /\ LiveWrite(k)) =>
          LET w == last_write[k][1]
          IN  (\/ ~w.evicted
               \/ w.stored /\ JsonStable(w.value) /\ ~ret'.logged)
              => ret'.value = Some(w.value)]_vars

\* C10 witness: a get has just returned the value of an earlier set of its
\* key although the LRU had evicted the key in between.
C10_Witness ==
    /\ ret.op = "get"
    /\ \E k \in CacheKeys :
           /\ ret.key = k
           /\ last_write[k] # None
           /\ last_write[k][1].stored
           /\ ret.value = Some(last_write[k][1].value)
           /\ hot_stats.evictions > 0
           /\ hot_stats.misses > 0
           /\ hot_stats.hits = 0

\* ------------------------------------- cached reads: claims C11, C12, C16
\* What the LRU and the shared store hold for key k.
LruValue(cache, k) ==
    IF LruIndex(cache, k) # 0 THEN Some(cache[LruIndex(cache, k)].value) ELSE None
StoreValue(k) ==
    IF redis_get(k) # None THEN Some(json_loads(redis_get(k)[1])) ELSE None
\* Call c is made in this step, as a read with cache_enabled.
CachedReadBegins(c) ==
    /\ calls[c].pc = "new"
    /\ calls'[c].pc # "new"
    /\ calls'[c].kind = "gaql"
    /\ calls'[c].cache_enabled
\* Call c, a read with cache_enabled served by the upstream call, returns in
\* this step.
CachedReadReturns(c) ==
    /\ calls[c].pc \in {"wait", "store"}
    /\ calls'[c].pc = "done"
    /\ calls'[c].cache_enabled
    /\ calls'[c].outcome[1].how = "return"

\* C11 (cache hit short-circuit): a read with cache_enabled whose fingerprint
\* is in the LRU or in the shared store returns the cached value in its first
\* step, with nothing submitted to the scheduler, no upstream call made and
\* no balance or scheduler counter changed.
C11_HitShortCircuit ==
    [][\A c \in 1..MaxCalls :
          LET k == GaqlKey(calls'[c].client_id)
              cached == IF LruValue(hot_cache, k) # None
                        THEN LruValue(hot_cache, k) ELSE StoreValue(k)
          IN  (CachedReadBegins(c) /\ cached # None) =>
                  /\ calls'[c].pc = "done"
                  /\ calls'[c].outcome = Some(Returned(cached))
                  /\ calls'[c].attempts = 0
                  /\ calls'[c].codes = <<>>
                  /\ UNCHANGED <<queue, unfinished_tasks, stats, worker_tasks>>
                  /\ UNCHANGED quotaVars]_vars

\* C11 witness: a read was answered from the shared store after the LRU had
\* evicted its fingerprint (no LRU hit has happened at all).
C11_Witness ==
    /\ hot_stats.hits = 0
    /\ hot_stats.evictions > 0
    /\ \E c \in 1..MaxCalls : CacheHit(c) /\ calls[c].cache_enabled

\* C12 (read-through caching): when a read with cache_enabled that was
\* served by the upstream call returns, its result is in the LRU and in the
\* shared store under its fingerprint, unless that step logged a failed
\* shared-store write.
C12_ReadThrough ==
    [][\A c \in 1..MaxCalls :
          LET k == GaqlKey(calls'[c].client_id)
          IN  (CachedReadReturns(c) /\ ~(calls[c].pc = "store" /\ ret'.logged)) =>
                  /\ LruValue(hot_cache', k) = calls'[c].result_container
                  /\ redis_cache'[k] # None
                  /\ json_loads(redis_cache'[k][1].payload)
                         = calls'[c].result_container[1]]_vars

\* C16 (cache write is best-effort): when the shared-store write of the
\* cache set in execute_gaql fails, the set does not raise, the LRU holds the
\* result under the fingerprint, the shared store is as before, and the call
\* returns its result.
C16_BestEffortWrite ==
    [][\A c \in 1..MaxCalls :
          LET k == GaqlKey(calls[c].client_id)
          IN  (calls[c].pc = "store" /\ calls'[c].pc = "done" /\ ret'.logged) =>
                  /\ calls'[c].outcome = Some(Returned(calls[c].result_container))
                  /\ calls[c].result_container # None
                  /\ LruValue(hot_cache', k) = calls[c].result_container
                  /\ redis_cache' = redis_cache]_vars

\* C16 witness: a read returned its rows although the shared-store write of
\* its cache set failed; the rows are in the LRU and not in the shared store.
C16_Witness ==
    /\ ret.op = "set" /\ ret.logged
    /\ \E c \in 1..MaxCalls :
           /\ calls[c].pc = "done"
           /\ calls[c].outcome = Some(Returned(Some(SearchRows)))
           /\ calls[c].attempts = 1
           /\ ret.key = GaqlKey(calls[c].client_id)
           /\ LruValue(hot_cache, ret.key) = Some(SearchRows)
           /\ redis_cache[ret.key] = None

\* ------------------------------------------------------- LRU: claim C13
LruHeld(cache) == {cache[i].key : i \in DOMAIN cache}
\* The keys the step removed from the LRU.
LruDropped == LruHeld(hot_cache) \ LruHeld(hot_cache')

\* C13 (LRU eviction order): for an LRU of maximum size N and any sequence
\* of set and get calls, the size never exceeds N, an entry leaves the LRU
\* only in a set of a key not held while N keys are held, that set evicts
\* exactly one entry and counts one eviction, and the evicted entry is the
\* one whose last access (set or hit get) is oldest among the held ones.
C13_LruEvictionOrder ==
    [][/\ Len(hot_cache) <= LruTestSize
       /\ Len(hot_cache') <= LruTestSize
       /\ hot_stats'.evictions = hot_stats.evictions + Cardinality(LruDropped)
       /\ ret'.evicted = None <=> LruDropped = {}
       /\ LruDropped # {} =>
              /\ ret'.op = "lru_set"
              /\ ret'.key \notin LruHeld(hot_cache)
              /\ Len(hot_cache) = LruTestSize
              /\ \E e \in LruHeld(hot_cache) :
                     /\ LruDropped = {e}
                     /\ ret'.evicted = Some(e)
                     /\ \A j \in LruHeld(hot_cache) \ {e} :
                            last_access[e] < last_access[j]
                     /\ LruHeld(hot_cache') =
                            (LruHeld(hot_cache) \ {e}) \cup {ret'.key}]_vars

\* C13 witness: set(key1), set(key2), set(key3), get(key1), set(key4) on an
\* LRU of size 3 has evicted key2 and left key3, key1, key4.
C13_Witness ==
    /\ ret.op = "lru_set"
    /\ ret.key = "key4"
    /\ ret.evicted = Some("key2")
    /\ [i \in DOMAIN hot_cache |-> hot_cache[i].key] = <<"key3", "key1", "key4">>
    /\ last_access["key1"] = 4
    /\ last_access["key2"] = 2
    /\ last_access["key3"] = 3
    /\ last_access["key4"] = 5
    /\ hot_stats = [hits |-> 1, misses |-> 0, sets |-> 4, evictions |-> 1]

\* ------------------------------------------- cache tiers: claims C14, C15
\* C14 (cache promotion): a CacheManager.get(F) that misses the LRU but
\* reads F from the shared store returns the stored value and inserts it
\* into the LRU; a get that finds F in the LRU returns the LRU's value
\* whether or not the shared store still holds F; a get that misses both
\* tiers returns absent and changes neither tier.
C14_CachePromotion ==
    [][\A k \in CacheKeys : GetStep(k) =>
          /\ (LruValue(hot_cache, k) = None /\ redis_get(k) # None
                  /\ ~ret'.logged) =>
                 /\ ret'.value = StoreValue(k)
                 /\ LruValue(hot_cache', k) = StoreValue(k)
                 /\ redis_cache' = redis_cache
          /\ LruValue(hot_cache, k) # None =>
                 /\ ret'.value = LruValue(hot_cache, k)
                 /\ LruValue(hot_cache', k) = LruValue(hot_cache, k)
          /\ (LruValue(hot_cache, k) = None /\ redis_get(k) = None) =>
                 /\ ret'.value = None
                 /\ hot_cache' = hot_cache
                 /\ redis_cache' = redis_cache]_vars

\* C14 witness: a get has returned a value from the LRU that an earlier get
\* promoted from the shared store, whose entry was gone when this get ran.
C14_Witness ==
    /\ ret.op = "get"
    /\ ret.value # None
    /\ ret.value = LruValue(hot_cache, ret.key)
    /\ ret.at = now
    /\ redis_cache[ret.key] # None
    /\ redis_get(ret.key) = None
    /\ last_write[ret.key] = None
    /\ hot_stats = [hits |-> 1, misses |-> 1, sets |-> 2, evictions |-> 0]

\* The step is a delete(k) of the CacheManager.
DeleteStep(k) ==
    /\ ret'.op = "delete"
    /\ ret'.key = k
    /\ now' = now

\* C15 (invalidation): after CacheManager.delete(F) returns neither the LRU
\* nor the shared store holds F, and a get(F) made while no set(F) has
\* followed the delete returns absent.
C15_Invalidation ==
    [][\A k \in CacheKeys :
          /\ DeleteStep(k) =>
                 /\ LruValue(hot_cache', k) = None
                 /\ redis_cache'[k] = None
          /\ (GetStep(k) /\ last_write[k] = None) => ret'.value = None]_vars

\* ------------------------------------------------ retry: claims C17..C20
Last(seq) == seq[Len(seq)]
\* The upstream attempts of call c so far, all but the last one.
EarlierAttempts(c) == 1..(Len(calls[c].codes) - 1)

\* C17 (retry bound): for every sequence of upstream outcomes the upstream
\* call is made at most 3 times per operation, no attempt follows a
\* success, the result kept is that of the successful attempt, the error
\* kept is the mapped error of the last attempt made, and the call ends
\* with that result or that error.
C17_RetryBound ==
    \A c \in 1..MaxCalls :
        LET call == calls[c]
        IN  /\ Len(call.codes) = call.attempts
            /\ call.attempts <= MAX_ATTEMPTS
            /\ \A i \in EarlierAttempts(c) : call.codes[i] \notin UpstreamReturns
            /\ call.result_container # None =>
                   /\ call.codes # <<>>
                   /\ Last(call.codes) \in UpstreamReturns
                   /\ call.result_container =
                          Some(UpstreamResult(call.kind, Last(call.codes)))
                   /\ call.error_container = None
            /\ call.error_container # None =>
                   /\ call.codes # <<>>
                   /\ Last(call.codes) \notin UpstreamReturns
                   /\ call.error_container =
                          Some(map_google_ads_exception(Last(call.codes)))
                   /\ call.result_container = None
            /\ (call.pc = "done" /\ call.attempts > 0) =>
                   call.outcome =
                       IF call.error_container # None
                       THEN Some(Raised(call.error_container[1]))
                       ELSE Some(Returned(call.result_container))

\* C17 witness: a call has ended after three failed attempts, raising the
\* mapped error of the third.
C17_Witness ==
    \E c \in 1..MaxCalls :
        /\ calls[c].pc = "done"
        /\ calls[c].codes = <<"UNAVAILABLE", "UNAVAILABLE", "RATE_LIMIT_ERROR">>
        /\ calls[c].outcome = Some(Raised(RateLimitError))

\* C18 (retry condition): a failed upstream attempt is followed by another
\* attempt only if its mapped error has retryable = true and its kind is
\* RATE_LIMIT or EXTERNAL_API.
C18_RetryCondition ==
    \A c \in 1..MaxCalls : \A i \in EarlierAttempts(c) :
        LET e == map_google_ads_exception(calls[c].codes[i])
        IN  /\ e.retryable
            /\ e.category \in {"RATE_LIMIT", "EXTERNAL_API"}

\* The summed cost of tenant t's operations whose debit has been applied.
TenantSpent(t) ==
    SumCost(LAMBDA c : Debited(c) /\ calls[c].client_id = t, MaxCalls)
TransientThenOk == <<"UNAVAILABLE", "UNAVAILABLE", "OK">>

\* C19 (retry on transient failure debits once): a call whose upstream
\* failed with UNAVAILABLE on the first two attempts and succeeded on the
\* third returns the successful result after three upstream calls, and once
\* its debit is applied the global balance and its tenant's balance are
\* lower by the operation's cost counted once, whatever the number of
\* attempts.
C19_RetryDebitsOnce ==
    /\ \A c \in 1..MaxCalls : calls[c].codes = TransientThenOk =>
           /\ calls[c].attempts = 3
           /\ Succeeded(c)
           /\ calls[c].pc = "done" =>
                  /\ Debited(c)
                  /\ calls[c].outcome =
                         Some(Returned(Some(UpstreamResult(calls[c].kind, "OK"))))
    /\ Spent = SumCost(Debited, MaxCalls)
    /\ \A t \in Tenants : TenantQuota[t][1] - Balance(t) = TenantSpent(t)

\* C19 witness: a mutate that succeeded on its third attempt has returned,
\* and both balances are lower by 50 units.
C19_Witness ==
    \E c \in 1..MaxCalls :
        /\ calls[c].pc = "done"
        /\ calls[c].kind = "mutate"
        /\ calls[c].codes = TransientThenOk
        /\ calls[c].outcome = Some(Returned(Some(MutateResponse)))
        /\ Spent = MUTATE_UNITS
        /\ TenantQuota[calls[c].client_id][1] - Balance(calls[c].client_id)
               = MUTATE_UNITS
        /\ \A d \in 1..MaxCalls : d # c => calls[d].pc = "new"

\* An upstream attempt of call c raises in this step.
AttemptFails(c) ==
    /\ calls'[c].attempts = calls[c].attempts + 1
    /\ Last(calls'[c].codes) \notin UpstreamReturns
\* The step changes a balance or what a cache tier holds.
BalanceOrCacheWritten ==
    \/ global_remaining' # global_remaining
    \/ client_remaining' # client_remaining
    \/ hot_cache' # hot_cache
    \/ redis_cache' # redis_cache

\* C20 (failure path): when the retry-wrapped upstream call of an operation
\* ends in an error, the call ends by raising exactly that mapped error, no
\* debit is pending or applied for it, and neither a failing attempt nor
\* any later step of the operation changes a balance or writes a cache
\* tier: a balance or a cache tier is written only on behalf of a call whose
\* upstream call returned.
C20_FailurePath ==
    [][/\ \A c \in 1..MaxCalls :
              /\ calls'[c].error_container # None =>
                     /\ calls'[c].error_container =
                            Some(map_google_ads_exception(Last(calls'[c].codes)))
                     /\ calls'[c].result_container = None
                     /\ calls'[c].pc \in {"wait", "done"}
                     /\ calls'[c].pc = "done" =>
                            calls'[c].outcome =
                                Some(Raised(calls'[c].error_container[1]))
              /\ (calls'[c] # calls[c]
                      /\ (AttemptFails(c) \/ calls[c].error_container # None)) =>
                     ~BalanceOrCacheWritten
       /\ BalanceOrCacheWritten =>
              \E c \in 1..MaxCalls :
                  /\ calls[c].result_container # None
                  /\ calls[c].error_container = None
                  /\ AwaitsDebit(c) \/ calls[c].pc = "store"]_vars

\* C20 witness: a cached read whose upstream call failed twice has raised
\* the mapped error of the second failure; the balances are what they were
\* at start-up and both cache tiers are empty.
C20_Witness ==
    \E c \in 1..MaxCalls :
        /\ calls[c].pc = "done"
        /\ calls[c].cache_enabled
        /\ calls[c].codes = <<"UNAVAILABLE", "INVALID_ARGUMENT">>
        /\ calls[c].outcome = Some(Raised(ValidationError))
        /\ global_remaining = global_daily
        /\ client_remaining = TenantQuota
        /\ hot_cache = <<>>
        /\ \A k \in CacheKeys : redis_cache[k] = None

\* ---------------------------------------- wait timeout: claims C21, C22
\* Call c ends in this step because wait_for_completion timed out.
TimeoutStep(c) ==
    /\ calls[c].pc = "wait"
    /\ calls'[c].pc = "done"
    /\ ~calls[c].released
\* The operation submitted for call c is queued or held by a worker.
OpPending(c) ==
    \/ \E i \in DOMAIN queue : queue[i].fn.call = c
    \/ \E w \in DOMAIN worker_tasks :
           worker_tasks[w].op # None /\ worker_tasks[w].op[1].fn.call = c
\* The debit of call c is applied in this step.
DebitStep(c) == AwaitsDebit(c) /\ ~AwaitsDebit(c)'

\* C21 (pipeline timeout kind): when the wait for completion of an
\* execute_* call times out, the error the call raises is of the taxonomy's
\* TIMEOUT kind and retryable.
C21_TimeoutKind ==
    [][\A c \in 1..MaxCalls : TimeoutStep(c) =>
          /\ calls'[c].outcome[1].how = "raise"
          /\ calls'[c].outcome[1].error[1].category = "TIMEOUT"
          /\ calls'[c].outcome[1].error[1].retryable]_vars

\* C22 (timeout does not abort work): the step in which an execute_* call
\* times out raises an error to the caller and leaves the queue, the
\* workers, the unfinished count and the balances as they are; the
\* operation of a timed-out call is eventually through (neither queued nor
\* held by a worker); and when its upstream call has succeeded, its debit
\* lowers the global and the tenant balance by its cost.
C22_TimeoutKeepsWork ==
    /\ [][\A c \in 1..MaxCalls :
              /\ TimeoutStep(c) =>
                     /\ calls'[c].outcome[1].how = "raise"
                     /\ OpPending(c)' = OpPending(c)
                     /\ UNCHANGED <<queue, worker_tasks, unfinished_tasks>>
                     /\ UNCHANGED quotaVars
              /\ (TimedOut(c) /\ DebitStep(c)) =>
                     /\ IntOr(global_remaining', 0) =
                            IntOr(global_remaining, 0) - calls[c].quota_units
                     /\ IntOr(client_remaining'[calls[c].client_id], 0) =
                            Balance(calls[c].client_id) - calls[c].quota_units]_vars
    /\ \A c \in 1..MaxCalls : TimedOut(c) ~> ~OpPending(c)

\* C22 witness: a mutate has timed out while its operation was pending, the
\* operation has then run and succeeded, and both balances are lower by its
\* 50 units.
C22_Witness ==
    /\ TimedOut(1)
    /\ calls[1].kind = "mutate"
    /\ Debited(1)
    /\ ~OpPending(1)
    /\ calls[2].pc = "new"
    /\ Spent = MUTATE_UNITS
    /\ TenantQuota["t1"][1] - Balance("t1") = MUTATE_UNITS

\* ------------------------------------ QuotaGovernor: claims C23, C24, C25
\* C23 (admission test): with the store answering, can_run(t, u, tier) is
\* false for every tier whenever global_remaining < u or the tenant's balance
\* < u, an absent global_remaining or tenant balance reading as 0; with both
\* balances sufficient it is false exactly for BRONZE below the reserve, an
\* absent global_daily reading as 1; a tenant whose balance was never set is
\* refused for every u > 0.
C23_AdmissionTest ==
    \A t \in Tenants, u \in Units, tier \in SLATier :
        /\ (IntOr(global_remaining, 0) < u \/ IntOr(client_remaining[t], 0) < u)
               => ~can_run(t, u, tier, TRUE)
        /\ (IntOr(global_remaining, 0) >= u /\ IntOr(client_remaining[t], 0) >= u)
               => (can_run(t, u, tier, TRUE) <=>
                      ~(/\ tier = BRONZE
                        /\ IntOr(global_remaining, 0) * 100
                               < 15 * IntOr(global_daily, 1)))
        /\ (client_remaining[t] = None /\ u > 0) => ~can_run(t, u, tier, TRUE)
        /\ (ret.op = "can_run" /\ ret.ok /\ ret.client_id = t /\ ret.units = u
                /\ ret.tier = tier)
               => ret.value = can_run(t, u, tier, TRUE)

\* C23 witness: can_run has just refused a GOLD tenant whose balance was
\* never set, although the global balance covers the units.
C23_Witness ==
    /\ ret.op = "can_run" /\ ret.ok /\ ~ret.value
    /\ ret.tier = GOLD
    /\ ret.units > 0
    /\ client_remaining[ret.client_id] = None
    /\ IntOr(global_remaining, 0) >= ret.units

\* C24 (fail-open admission): when a shared-store read inside can_run
\* fails, can_run returns true for every tenant, unit amount and tier, and
\* changes no key.
C24_FailOpen ==
    [][/\ \A t \in Tenants, u \in Units, tier \in SLATier :
              can_run(t, u, tier, FALSE)
       /\ (ret'.op = "can_run" /\ ~ret'.ok) =>
              /\ ret'.value
              /\ UNCHANGED quotaVars]_vars

\* C24 witness: with the store failing, can_run has just admitted a BRONZE
\* tenant in the reserve whose balance is below the units asked for.
C24_Witness ==
    /\ ret.op = "can_run" /\ ~ret.ok /\ ret.value
    /\ ret.tier = BRONZE
    /\ InReserve
    /\ Balance(ret.client_id) < ret.units
    /\ ~can_run(ret.client_id, ret.units, BRONZE, TRUE)

\* The keys charge and refund leave alone: global_daily, the other tenants'
\* balances, tiers and pause flags.
OtherKeysKept(t) ==
    /\ UNCHANGED <<global_daily, client_tier, client_paused>>
    /\ \A o \in Tenants \ {t} : client_remaining'[o] = client_remaining[o]

\* C25 (charge and refund are exact inverses): a charge(t, u) whose store
\* transaction succeeds lowers global_remaining and the balance of t by u
\* and changes no other key; such a refund(t, u) raises the same two by u
\* and changes no other key; a refund(t, u) directly after a charge(t, u)
\* leaves both balances at their values before the charge.
C25_ChargeRefundInverse ==
    [][/\ (ret'.op = "charge" /\ ret'.ok) =>
              /\ IntOr(global_remaining', 0) = IntOr(global_remaining, 0) - ret'.units
              /\ IntOr(client_remaining'[ret'.client_id], 0) =
                     IntOr(client_remaining[ret'.client_id], 0) - ret'.units
              /\ OtherKeysKept(ret'.client_id)
       /\ (ret'.op = "refund" /\ ret'.ok) =>
              /\ IntOr(global_remaining', 0) = IntOr(global_remaining, 0) + ret'.units
              /\ IntOr(client_remaining'[ret'.client_id], 0) =
                     IntOr(client_remaining[ret'.client_id], 0) + ret'.units
              /\ OtherKeysKept(ret'.client_id)
       /\ (/\ ret.op = "charge" /\ ret.ok
           /\ ret'.op = "refund" /\ ret'.ok
           /\ ret'.client_id = ret.client_id /\ ret'.units = ret.units) =>
              /\ IntOr(global_remaining', 0) = ret.before.global
              /\ IntOr(client_remaining'[ret.client_id], 0) = ret.before.client]_vars

\* C25 witness: a refund of 50 units has just brought the global balance
\* back from 50 to the daily 100 and the tenant's balance back from 0 to 50.
C25_Witness ==
    /\ ret.op = "refund" /\ ret.ok
    /\ ret.units = 50
    /\ ret.before = [global |-> 50, client |-> 0]
    /\ global_daily = Some(100)
    /\ global_remaining = Some(100)
    /\ client_remaining[ret.client_id] = Some(50)

\* ------------------------------------------------ write path: claim C26
\* execute_mutate is called as call c in this step.
MutateBegins(c) == calls[c].pc = "new" /\ calls'[c].kind = "mutate"
\* 50 x the number of operations of call c.
ClaimedWriteCost(c) == 50 * calls'[c].nops

\* C26 (write path): while an execute_mutate call is in progress, from the
\* step that makes it to the step that ends it, neither cache tier nor the
\* LRU's hit and miss counts change; the call is admitted exactly when
\* can_run accepts 50 x len(operations) units, and its debit lowers both
\* balances by 50 x len(operations).
C26_WritePath ==
    [][\A c \in 1..MaxCalls : calls'[c].kind = "mutate" =>
          /\ (InProgress(c) \/ InProgress(c)' \/ MutateBegins(c)) =>
                 UNCHANGED cacheVars
          /\ MutateBegins(c) =>
                 LET t == calls'[c].client_id
                 IN  IF can_run(t, ClaimedWriteCost(c), get_client_tier(t, TRUE), TRUE)
                     THEN /\ calls'[c].pc = "wait"
                          /\ calls'[c].quota_units = ClaimedWriteCost(c)
                     ELSE /\ calls'[c].pc = "done"
                          /\ calls'[c].outcome = Some(Raised(QuotaExceededError))
          /\ DebitStep(c) =>
                 /\ IntOr(global_remaining', 0) =
                        IntOr(global_remaining, 0) - ClaimedWriteCost(c)
                 /\ IntOr(client_remaining'[calls[c].client_id], 0) =
                        Balance(calls[c].client_id) - ClaimedWriteCost(c)]_vars

\* C26 witness: after a read was cached, a mutate of one operation was
\* debited 50 units and a mutate of two operations was refused; both cache
\* tiers still hold the read result and the LRU counts one miss and one set.
C26_Witness ==
    /\ \E c \in 1..MaxCalls :
           /\ calls[c].kind = "mutate" /\ calls[c].nops = 1
           /\ calls[c].pc = "done" /\ Debited(c)
    /\ \E c \in 1..MaxCalls :
           /\ calls[c].kind = "mutate" /\ calls[c].nops = 2
           /\ Refused(c)
    /\ LruValue(hot_cache, GaqlKey("t1")) = Some(SearchRows)
    /\ StoreValue(GaqlKey("t1")) = Some(SearchRows)
    /\ hot_stats = [hits |-> 0, misses |-> 1, sets |-> 1, evictions |-> 0]
    /\ Spent = READ_UNITS + MUTATE_UNITS

\* ------------------------------------------------ error mapping: claim C27
\* The kind the mapping table gives for an upstream error code, and whether
\* the mapped error is to be retryable.
ClaimedKind(code) ==
    CASE code = "AUTHENTICATION_ERROR" -> "AUTHENTICATION"
      [] code = "AUTHORIZATION_ERROR" -> "AUTHORIZATION"
      [] code \in {"QUOTA_ERROR", "RESOURCE_EXHAUSTED"} -> "QUOTA"
      [] code = "RATE_LIMIT_ERROR" -> "RATE_LIMIT"
      [] code = "INVALID_ARGUMENT" -> "VALIDATION"
      [] code = "NOT_FOUND" -> "NOT_FOUND"
      [] code = "ALREADY_EXISTS" -> "CONFLICT"
      [] code = "DEADLINE_EXCEEDED" -> "TIMEOUT"
      [] code = "INTERNAL_ERROR" -> "INTERNAL"
      [] OTHER -> "EXTERNAL_API"
ClaimedRetryable(code) ==
    \/ ClaimedKind(code) \in {"QUOTA", "RATE_LIMIT", "TIMEOUT"}
    \/ code = "UNAVAILABLE"
ErrorCodes == RetryCodes \ UpstreamReturns

\* C27 (upstream error mapping): for every upstream error code the mapped
\* error has the kind of the mapping table, it is retryable exactly for the
\* kinds QUOTA, RATE_LIMIT, TIMEOUT and for EXTERNAL_API from UNAVAILABLE,
\* a code outside the table maps to EXTERNAL_API, not retryable; and the
\* error an operation keeps is the one so mapped from its last attempt.
C27_ErrorMapping ==
    /\ \A code \in ErrorCodes :
           /\ map_google_ads_exception(code).category = ClaimedKind(code)
           /\ map_google_ads_exception(code).retryable = ClaimedRetryable(code)
    /\ \A c \in 1..MaxCalls : calls[c].error_container # None =>
           /\ calls[c].error_container[1].category =
                  ClaimedKind(Last(calls[c].codes))
           /\ calls[c].error_container[1].retryable =
                  ClaimedRetryable(Last(calls[c].codes))

\* C27 witness: an operation whose attempts raised UNAVAILABLE, an unknown
\* code and RESOURCE_EXHAUSTED has kept a retryable QUOTA error.
C27_Witness ==
    \E c \in 1..MaxCalls :
        /\ calls[c].codes = <<"UNAVAILABLE", "UNKNOWN", "RESOURCE_EXHAUSTED">>
        /\ calls[c].error_container = Some(QuotaExceededError)
        /\ QuotaExceededError.category = "QUOTA"
        /\ QuotaExceededError.retryable

\* ------------------------------------------------------------------- C28
\* The step in which worker w leaves operation.execute() with an Exception.
RaisedStep == ret'.op = "execute" /\ ret' # ret /\ ret'.raised

\* C28 (worker fault containment): when the operation a worker executes
\* raises, that step adds exactly 1 to failed, leaves completed and
\* submitted as they were, marks the queue item done (one unfinished task
\* less), takes nothing from the queue and keeps every worker task; the
\* worker is where it is after an operation that returned: back in
\* queue.get() while the scheduler runs.
C28_FaultContainment ==
    [][RaisedStep =>
           /\ stats' = [stats EXCEPT !.failed = @ + 1]
           /\ unfinished_tasks' = unfinished_tasks - 1
           /\ queue' = queue
           /\ DOMAIN worker_tasks' = DOMAIN worker_tasks
           /\ \A v \in DOMAIN worker_tasks \ {ret'.worker} :
                  worker_tasks'[v] = worker_tasks[v]
           /\ running => worker_tasks'[ret'.worker] = WorkerAt("get", None)]_vars

\* C28 witness: the worker whose last operation raised is executing a later
\* operation on the running scheduler.
C28_Witness ==
    /\ ret.op = "execute" /\ ret.raised
    /\ running
    /\ stats.failed = 1 /\ stats.completed = 0
    /\ worker_tasks[ret.worker].pc = "run"
    /\ worker_tasks[ret.worker].op[1].id # ret.id

\* ------------------------------------------------------------------- C29
\* The operations on the queue and with the workers, one entry each.
HeldIds == {worker_tasks[w].op[1].id : w \in Executing}
QueuedIds == {queue[i].id : i \in DOMAIN queue}

\* Worker w is left alone or takes one step of its loop.
WorkerLoopStep(w) ==
    \/ worker_tasks'[w] = worker_tasks[w]
    \/ /\ worker_tasks[w].pc = "get"
       /\ queue # <<>>
       /\ worker_tasks'[w] = WorkerAt("run", Some(heappop(queue).item))
       /\ queue' = heappop(queue).heap
    \/ /\ worker_tasks[w].pc = "run"
       /\ worker_tasks'[w] = WorkerAt("get", None)
       /\ stats'.completed + stats'.failed = stats.completed + stats.failed + 1

\* Every operation is in one place, and none is counted twice.
ExecutedOnce ==
    /\ Cardinality(QueuedIds) = Len(queue)
    /\ Cardinality(HeldIds) = Cardinality(Executing)
    /\ QueuedIds \cap HeldIds = {}
    /\ unfinished_tasks = Len(queue) + Cardinality(Executing)
    /\ stats.completed + stats.failed + unfinished_tasks <= stats.submitted

\* C29 (start is idempotent): a start() on a running scheduler changes
\* nothing of the scheduler; whatever calls are made, a running scheduler
\* has exactly W worker tasks, all alive, which between two states of the
\* running scheduler only take steps of their own loop (no task is replaced
\* and no held operation dropped), and every submitted operation is on the
\* queue or with one worker at most once and counted at most once.
C29_StartIdempotent ==
    [][/\ (ret'.op = "start" /\ ret' # ret /\ ret'.was_running) =>
              UNCHANGED schedVars
       /\ (running /\ running') =>
              /\ DOMAIN worker_tasks' = DOMAIN worker_tasks
              /\ \A w \in DOMAIN worker_tasks : WorkerLoopStep(w)
       /\ running' =>
              /\ Len(worker_tasks') = workers'
              /\ \A w \in DOMAIN worker_tasks' :
                     worker_tasks'[w].pc \in {"get", "run"}
       /\ ExecutedOnce']_vars

\* C29 witness: start() has just returned on a scheduler that was running,
\* with an operation on the queue and one with the worker.
C29_Witness ==
    /\ ret = [op |-> "start", was_running |-> TRUE]
    /\ running
    /\ Len(worker_tasks) = workers
    /\ Executing # {}
    /\ queue # <<>>

\* ------------------------------------------------------------------- C30
\* Worker w, inside operation.execute(), finishes it and returns.
FinishesAndExits(w) ==
    /\ worker_tasks' # <<>>
    /\ worker_tasks'[w] = WorkerAt("exited", None)
    /\ stats'.completed + stats'.failed = stats.completed + stats.failed + 1
    /\ unfinished_tasks' = unfinished_tasks - 1
    /\ queue' = queue

\* stop() ends its wait and cancels worker w inside operation.execute().
CancelledInExecution(w) ==
    /\ ret'.op = "stopped"
    /\ worker_tasks[w].op[1].id \in ret'.aborted
    /\ worker_tasks' = <<>>
    /\ stats' = stats
    /\ queue' = queue

\* stop() returns: at once on a scheduler that is not running, or after the
\* cancellation.
StopReturns ==
    /\ ret' # ret
    /\ \/ ret'.op = "stopped"
       \/ ret'.op = "stop" /\ ~ret'.was_running

\* What holds of the workers that returned, and when stop() returns.
ExitedStayAndStopEnds ==
    /\ \A w \in DOMAIN worker_tasks :
           worker_tasks[w].pc = "exited" =>
               \/ worker_tasks' = <<>>
               \/ worker_tasks'[w] = worker_tasks[w]
    /\ StopReturns => ~running' /\ worker_tasks' = <<>>

C31_DroppedOnStop ==
    [][(ret'.op = "stopped" /\ ret' # ret) => queue' = <<>>]_vars

\* ------------------------------------------------------------------- C36
\* SchedulerStats.to_dict: "pending"
Pending == stats.submitted - stats.completed - stats.failed

\* C36 (scheduler counter conservation): in every state submitted =
\* completed + failed + queue size + number of operations being executed,
\* by_tier sums to submitted, and pending is 0 whenever the queue is empty
\* and no worker executes.
C36_CounterConservation ==
    /\ stats.submitted =
           stats.completed + stats.failed + Len(queue) + Cardinality(Executing)
    /\ stats.by_tier[GOLD] + stats.by_tier[SILVER] + stats.by_tier[BRONZE] =
           stats.submitted
    /\ (queue = <<>> /\ Executing = {}) => Pending = 0

\* ------------------------------------------------------------------- C32
\* A queued operation is never rewritten: while it waits, its record (its
\* priority with it) is the one submit() built.
NoAging ==
    \A o \in Range(queue) :
        (\E p \in Range(queue') : p.id = o.id) => o \in Range(queue')

PipelineOpEnds(w) ==
    /\ w \in DOMAIN worker_tasks'
    /\ worker_tasks[w].pc \in {"run", "charge"}
    /\ worker_tasks[w].op[1].fn.name = "wrapped_operation"
    /\ worker_tasks'[w].pc \notin {"run", "charge"}

\* C33 (per-operation state machine): a pipeline operation is dequeued by one
\* worker and is then on the queue no more; reaching its terminal state it
\* releases its queue slot once and changes exactly one scheduler counter:
\* completed when its upstream call succeeded, failed when it ended in an
\* error.
C33_OperationStateMachine ==
    [][/\ \A w \in 1..MaxWorkers : Dequeues(w) =>
              /\ worker_tasks'[w].op[1] \notin Range(queue')
              /\ \A v \in DOMAIN worker_tasks' \ {w} :
                     worker_tasks'[v].op # worker_tasks'[w].op
       /\ \A w \in DOMAIN worker_tasks : PipelineOpEnds(w) =>
              /\ unfinished_tasks' = unfinished_tasks - 1
              /\ stats' =
                     IF calls'[worker_tasks[w].op[1].fn.call].error_container = None
                     THEN [stats EXCEPT !.completed = @ + 1]
                     ELSE [stats EXCEPT !.failed = @ + 1]]_vars

\* ------------------------------------------------------------------- C38
\* Calls c and d are reads through the cache of the same tenant (the model's
\* reads of one tenant have one query and one page_size), both past their
\* cache lookup, neither returned: d began before c had written the cache.
OverlappingReads(c, d) ==
    /\ c # d
    /\ calls[c].kind = "gaql" /\ calls[d].kind = "gaql"
    /\ calls[c].cache_enabled /\ calls[d].cache_enabled
    /\ calls[c].client_id = calls[d].client_id
    /\ calls[c].pc \in {"gate", "wait", "store"}
    /\ calls[d].pc \in {"gate", "wait", "store"}

\* C38 (single upstream call for identical concurrent reads): of two
\* overlapping identical reads at most one has had the upstream search
\* invoked, and at most one has been debited.
C38_SingleUpstreamCall ==
    \A c, d \in 1..MaxCalls :
        OverlappingReads(c, d) =>
            /\ calls[c].attempts = 0 \/ calls[d].attempts = 0
            /\ ~(Debited(c) /\ Debited(d))

\* ------------------------------------------------------------------- C39
\* The last two calls of build_cache_key.
TwoKeys == ret.op = "build_cache_key" /\ ret.before # None

\* The calls name the same tenant, operation and parameters, in whatever
\* order the parameters were given.
SameTriple(a, b) ==
    /\ a.client_id = b.client_id
    /\ a.operation = b.operation
    /\ Range(a.params) = Range(b.params)

\* No ":" and no "=" in a text.
Plain(text) == \A i \in DOMAIN text : text[i] \notin {":", "="}
PlainCall(a) ==
    /\ Plain(a.client_id)
    /\ Plain(a.operation)
    /\ \A i \in DOMAIN a.params : Plain(a.params[i][2])

\* C39 as stated (cache tenant isolation): two calls have the same
\* fingerprint exactly when they have the same tenant, operation and
\* parameters; the order of the parameters does not matter.
C39_AsStated ==
    TwoKeys => (ret.call.key = ret.before[1].key
                    <=> SameTriple(ret.call, ret.before[1]))

\* C39 (cache tenant isolation), amended: the same tenant, operation and
\* parameters give the same fingerprint in whatever order the parameters are
\* given; and two calls whose tenant ids, operation names and parameter
\* values contain no ":" and no "=" have the same fingerprint only if they
\* have the same tenant, operation and parameters.
C39_TenantIsolation ==
    TwoKeys =>
        /\ SameTriple(ret.call, ret.before[1]) =>
               ret.call.key = ret.before[1].key
        /\ (PlainCall(ret.call) /\ PlainCall(ret.before[1])) =>
               (ret.call.key = ret.before[1].key =>
                    SameTriple(ret.call, ret.before[1]))

\* C39 witness: the same read of tenant "a" given with its parameters in the
\* two orders has one fingerprint, made of the sorted parameters.
C39_Witness ==
    /\ TwoKeys
    /\ ret.call.params # ret.before[1].params
    /\ SameTriple(ret.call, ret.before[1])
    /\ ret.call.key = ret.before[1].key
    /\ ret.call.key = <<"client", ":", "a", ":", "gaql", ":",
                        "page_size", "=", "1000", ":", "query", "=", "x">>

\* ------------------------------------------------------------------- C34
\* Call c comes back from wait_for_completion without a timeout.
WaitReturns(c) ==
    /\ calls[c].pc = "wait"
    /\ calls'[c].pc # "wait"
    /\ calls'[c].outcome # Some(Raised(AsyncioTimeoutError))

\* C34 as stated (await-drain coupling): a call that has submitted its
\* operation returns, other than by timeout, only in a state where the queue
\* has no unfinished operation.
C34_AsStated ==
    [][\A c \in 1..MaxCalls : WaitReturns(c) => unfinished_tasks = 0]_vars

\* C34 (await-drain coupling), amended: a waiting call is released only in a
\* step that leaves the queue with no unfinished operation of any tenant; it
\* returns, other than by timeout, only after it was released, so never
\* before its own operation has finished; until it is released it stays
\* waiting, and the queue has an unfinished operation all that time, its own
\* or another request's. Between its release and its return other requests
\* may submit: the queue need not be drained at the return itself.
C34_AwaitDrain ==
    [][\A c \in 1..MaxCalls :
          /\ (~calls[c].released /\ calls'[c].released) => unfinished_tasks' = 0
          /\ WaitReturns(c) => calls[c].released /\ ~OpPending(c)
          /\ (calls'[c].pc = "wait" /\ ~calls'[c].released) =>
                 unfinished_tasks' > 0]_vars

\* C34 witness: a call whose operation is finished has been released and is
\* about to return while the operation of a later request is unfinished.
C34_Witness ==
    \E c, d \in 1..MaxCalls :
        /\ c # d
        /\ calls[c].pc = "wait" /\ calls[c].released
        /\ ~OpPending(c)
        /\ calls[d].pc = "wait" /\ ~calls[d].released
        /\ OpPending(d)

\* ------------------------------------------------------------------- C35
\* Call c, which went past the cache and was admitted (its tier was read),
\* has returned to its caller without raising.
ReturnedPastCache(c) ==
    /\ calls[c].pc = "done"
    /\ calls[c].outcome[1].how = "return"
    /\ calls[c].tier # "none"

\* C35 (result implies success and one debit): a call that did not hit the
\* cache has returned without raising only if its upstream call returned,
\* its last attempt being the successful one, and the charge for its cost
\* was issued and is no longer pending.
C35_ResultImpliesDebit ==
    \A c \in 1..MaxCalls :
        ReturnedPastCache(c) =>
            /\ calls[c].attempts >= 1
            /\ Last(calls[c].codes) \in UpstreamReturns
            /\ Succeeded(c)
            /\ calls[c].outcome[1].value = calls[c].result_container
            /\ ~AwaitsDebit(c)

\* ------------------------------------------------------------------- C40
\* C40 (drain liveness): on a running scheduler with fairly scheduled
\* workers, operations whose execution terminates and finitely many
\* submissions, every submitted operation is on the queue or with one
\* worker until it is counted, once, as executed; every submitted
\* operation is eventually executed; the queue eventually has no unfinished
\* operation; and every call waiting in wait_for_completion eventually
\* leaves it.
C40_DrainLiveness ==
    /\ [](/\ ExecutedOnce
          /\ stats.completed + stats.failed + unfinished_tasks = stats.submitted)
    /\ (unfinished_tasks > 0) ~> (unfinished_tasks = 0)
    /\ \A c \in 1..MaxCalls : OpPending(c) ~> ~OpPending(c)
    /\ \A c \in 1..MaxCalls : (calls[c].pc = "wait") ~> (calls[c].pc = "done")

\* C40 witness: two overlapping calls were submitted, both operations have
\* been executed, the queue has no unfinished operation and both calls have
\* returned.
C40_Witness ==
    /\ stats.submitted = 2
    /\ stats.completed = 2
    /\ unfinished_tasks = 0
    /\ peak_unfinished = 2
    /\ \A c \in 1..2 : calls[c].pc = "done" /\ calls[c].outcome[1].how = "return"

\* C37 (as stated): under every interleaving of start() and stop() calls,
\* start() during a suspended stop() included, whenever the running flag is
\* true self._worker_tasks holds exactly W tasks and they are alive, no
\* live worker task is outside it, and health_check reports healthy only
\* when W workers are alive.
C37_AsStated ==
    /\ running => /\ Len(worker_tasks) = workers
                  /\ Cardinality(LiveTracked) = workers
                  /\ untracked = <<>>
    /\ health_check.healthy =>
           Cardinality(LiveTracked) + Len(untracked) >= workers

====
